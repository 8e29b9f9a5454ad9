---------------------------- MODULE InputProofs -----------------------------
(***************************************************************************)
(* Theorems about the way of a key, from the keyboard to a line.           *)
(*                                                                         *)
(* Stdin, for buffers of all sizes that doubling reaches, any number of    *)
(* keys and reads of any length: the variables keep their types (no key is *)
(* written behind the buffer), the standard input is a queue, and a read   *)
(* that waits gets the next keys.                                          *)
(*                                                                         *)
(* Shell, for lines and histories of every size, any keys, and programs    *)
(* that print anything: the history recalls what was entered, and the      *)
(* cursor stays on the line.                                               *)
(***************************************************************************)
EXTENDS Stdin, Shell, SequenceTheorems, WellFoundedInduction, TLAPS

\* The sizes the buffer may have.
Sizes ==
    CHOOSE sizes \in SUBSET (MIN_STDIN_BUFFER_SIZE .. MAX_STDIN_BUFFER_SIZE) :
        /\ MIN_STDIN_BUFFER_SIZE \in sizes
        /\ \A n \in sizes : n # MAX_STDIN_BUFFER_SIZE => 2 * n \in sizes

\* A read that waits has taken all there was, and wants no more than fits.
Waiting ==
    state = "BLOCKED_KEYBOARD" => stdinIndex = 0 /\ edx > 0 /\ eax + edx <= MaxRead

Queue == orderly => got \o Arriving \o Buffered = accepted

IInv ==
    /\ TypeOK
    /\ stdinSize \in Sizes
    /\ Waiting
    /\ BlockedReadGetsNextKeys
    /\ Queue

-----------------------------------------------------------------------------
(* Facts about the buffer.                                                 *)

\* A buffer that is not of the largest size can be doubled.
LEMMA SizesDouble ==
    /\ Sizes \subseteq MIN_STDIN_BUFFER_SIZE .. MAX_STDIN_BUFFER_SIZE
    /\ MIN_STDIN_BUFFER_SIZE \in Sizes
    /\ \A n \in Sizes : n # MAX_STDIN_BUFFER_SIZE => 2 * n \in Sizes
BY DoublingAssumption DEF Sizes

\* The beginning of an array of characters is a sequence of them.
LEMMA PrefixType ==
    ASSUME NEW m \in Nat, NEW a \in [0 .. m - 1 -> Char], NEW n \in 0 .. m
    PROVE  /\ Prefix(a, n) \in Seq(Char)
           /\ Len(Prefix(a, n)) = n
           /\ \A k \in 1 .. n : Prefix(a, n)[k] = a[k - 1]
<1>1. \A k \in 1 .. n : a[k - 1] \in Char
  OBVIOUS
<1> QED
  BY <1>1 DEF Prefix

\* Adding a character behind the first n makes the prefix longer by it.
LEMMA PrefixGrows ==
    ASSUME NEW m \in Nat, NEW a \in [0 .. m - 1 -> Char], NEW n \in 0 .. m - 1, NEW c \in Char
    PROVE  Prefix([a EXCEPT ![n] = c], n + 1) = Append(Prefix(a, n), c)
<1> DEFINE b == [a EXCEPT ![n] = c]
<1>1. b \in [0 .. m - 1 -> Char] /\ b[n] = c /\ \A k \in 0 .. n - 1 : b[k] = a[k]
  OBVIOUS
<1>2. /\ Prefix(b, n + 1) \in Seq(Char) /\ Len(Prefix(b, n + 1)) = n + 1
      /\ \A k \in 1 .. n + 1 : Prefix(b, n + 1)[k] = b[k - 1]
  <2>1. n + 1 \in 0 .. m
    OBVIOUS
  <2> HIDE DEF b
  <2> QED
    BY <1>1, <2>1, PrefixType
<1>3. /\ Prefix(a, n) \in Seq(Char) /\ Len(Prefix(a, n)) = n
      /\ \A k \in 1 .. n : Prefix(a, n)[k] = a[k - 1]
  BY PrefixType
<1>4. /\ Append(Prefix(a, n), c) \in Seq(Char) /\ Len(Append(Prefix(a, n), c)) = n + 1
      /\ \A k \in 1 .. n : Append(Prefix(a, n), c)[k] = a[k - 1]
      /\ Append(Prefix(a, n), c)[n + 1] = c
  BY <1>3, AppendProperties
<1> HIDE DEF b
<1>5. ASSUME NEW k \in 1 .. n + 1
      PROVE  Prefix(b, n + 1)[k] = Append(Prefix(a, n), c)[k]
  <2>1. CASE k = n + 1
    <3>1. Prefix(b, n + 1)[k] = b[n]
      BY <1>2, <2>1
    <3> QED
      BY <1>1, <1>4, <2>1, <3>1
  <2>2. CASE k \in 1 .. n
    <3>1. Prefix(b, n + 1)[k] = b[k - 1] /\ k - 1 \in 0 .. n - 1
      BY <1>2, <2>2
    <3> QED
      BY <1>1, <1>4, <2>2, <3>1
  <2>3. k = n + 1 \/ k \in 1 .. n
    OBVIOUS
  <2> QED
    BY <2>1, <2>2, <2>3
<1> QED
  BY <1>2, <1>4, <1>5, SeqEqual DEF b

\* The first count characters and those that move up behind them are what
\* was in the buffer.
LEMMA PrefixSplits ==
    ASSUME NEW m \in Nat, NEW a \in [0 .. m - 1 -> Char], NEW b \in [0 .. m - 1 -> Char],
           NEW r \in Nat, NEW out \in [0 .. r - 1 -> Char],
           NEW index \in 0 .. m, NEW count \in 0 .. index, count <= r,
           \A k \in 0 .. count - 1 : out[k] = a[k],
           \A k \in 0 .. index - count - 1 : b[k] = a[count + k]
    PROVE  Prefix(out, count) \o Prefix(b, index - count) = Prefix(a, index)
<1> DEFINE s == Prefix(out, count)
           t == Prefix(b, index - count)
<1>1. s \in Seq(Char) /\ Len(s) = count /\ \A k \in 1 .. count : s[k] = out[k - 1]
  BY PrefixType
<1>2. /\ t \in Seq(Char) /\ Len(t) = index - count
      /\ \A k \in 1 .. index - count : t[k] = b[k - 1]
  <2>1. index - count \in 0 .. m
    OBVIOUS
  <2> QED
    BY <2>1, PrefixType
<1>3. /\ Prefix(a, index) \in Seq(Char) /\ Len(Prefix(a, index)) = index
      /\ \A k \in 1 .. index : Prefix(a, index)[k] = a[k - 1]
  BY PrefixType
<1> HIDE DEF s, t
<1>4. /\ s \o t \in Seq(Char) /\ Len(s \o t) = index
      /\ \A k \in 1 .. index : (s \o t)[k] = IF k <= count THEN s[k] ELSE t[k - count]
  BY <1>1, <1>2, ConcatProperties
<1>5. ASSUME NEW k \in 1 .. index PROVE (s \o t)[k] = Prefix(a, index)[k]
  <2>1. CASE k <= count
    BY <1>1, <1>3, <1>4, <2>1
  <2>2. CASE k > count
    <3>1. k - count \in 1 .. index - count /\ k - count - 1 \in 0 .. index - count - 1
      BY <2>2
    <3>2. t[k - count] = b[k - count - 1] /\ b[k - count - 1] = a[count + (k - count - 1)]
      BY <1>2, <3>1
    <3>3. count + (k - count - 1) = k - 1
      OBVIOUS
    <3> QED
      BY <1>3, <1>4, <2>2, <3>2, <3>3
  <2>3. k <= count \/ k > count
    OBVIOUS
  <2> QED
    BY <2>1, <2>2, <2>3
<1> QED
  BY <1>3, <1>4, <1>5, SeqEqual DEF s, t

\* A character joins the queue at its end.
LEMMA QueueGrows ==
    ASSUME NEW s \in Seq(Char), NEW t \in Seq(Char), NEW c \in Char
    PROVE  s \o Append(t, c) = Append(s \o t, c)
<1>1. Append(t, c) = t \o <<c>> /\ Append(s \o t, c) = (s \o t) \o <<c>>
  BY AppendIsConcat, ConcatProperties
<1>2. <<c>> \in Seq(Char)
  OBVIOUS
<1> QED
  BY <1>1, <1>2, ConcatAssociative

-----------------------------------------------------------------------------
(* The invariant.                                                          *)

LEMMA InitIInv == Init => IInv
<1> SUFFICES ASSUME Init PROVE IInv
  OBVIOUS
<1>1. TypeOK
  BY SizesAssumption, BoundsAssumption DEF Init, TypeOK, Char, Junk
<1>2. stdinSize \in Sizes
  BY SizesDouble DEF Init
<1>3. Waiting /\ BlockedReadGetsNextKeys
  BY DEF Init, Waiting, BlockedReadGetsNextKeys
<1>4. Queue
  <2>1. Arriving = <<>> /\ Buffered = <<>>
    BY DEF Init, Arriving, Buffered, Prefix
  <2> QED
    BY <2>1 DEF Init, Queue
<1> QED
  BY <1>1, <1>2, <1>3, <1>4 DEF IInv
\* What a key does to a read that waits.
LEMMA KeyToReaderIInv == IInv /\ KeyToReader => IInv'
<1> SUFFICES ASSUME IInv, KeyToReader PROVE IInv'
  OBVIOUS
<1>1. /\ stdinIndex = 0 /\ edx \in 1 .. MaxRead /\ eax \in 0 .. MaxRead - 1
      /\ eax + edx <= MaxRead /\ MaxRead \in Nat
      /\ typed' \in Char /\ typed' = typed + 1 /\ typed \in Nat
  BY BoundsAssumption DEF IInv, TypeOK, Waiting, KeyToReader, Press, Char
<1>2. buf \in [0 .. MaxRead - 1 -> Char] /\ got \in Seq(Char) /\ accepted \in Seq(Char)
  BY DEF IInv, TypeOK
<1>3. /\ buf' \in [0 .. MaxRead - 1 -> Char]
      /\ buf'[eax] = typed' /\ \A k \in 0 .. eax - 1 : buf'[k] = buf[k]
  BY <1>1, <1>2 DEF KeyToReader
<1>4. eax' = eax + 1 /\ edx' = edx - 1 /\ eax' \in 0 .. MaxRead /\ edx' \in 0 .. MaxRead
  BY <1>1 DEF KeyToReader
<1>5. Prefix(buf', eax') = Append(Prefix(buf, eax), typed')
  BY <1>1, <1>2, <1>4, PrefixGrows DEF KeyToReader
<1>6. Prefix(buf, eax) \in Seq(Char) /\ Prefix(buf', eax') \in Seq(Char)
  BY <1>1, <1>2, <1>3, <1>4, PrefixType
<1>7. accepted' \in Seq(Char)
  BY <1>1, <1>2, AppendProperties DEF KeyToReader
<1>8. got' \in Seq(Char)
  <2>1. got \o Prefix(buf', eax') \in Seq(Char)
    BY <1>2, <1>6, ConcatProperties
  <2> QED
    BY <1>2, <2>1 DEF KeyToReader
<1>9. TypeOK'
  <2>1. typed' \in 0 .. MaxTyped
    BY <1>1 DEF Char
  <2> QED
    BY <1>3, <1>4, <1>7, <1>8, <2>1 DEF IInv, TypeOK, KeyToReader
<1>10. (stdinSize \in Sizes)'
  BY DEF IInv, KeyToReader
<1>11. Waiting'
  BY <1>1, <1>4 DEF Waiting, KeyToReader
<1>12. BlockedReadGetsNextKeys'
  <2>1. \A k \in 0 .. eax - 1 : buf[k] = typed - eax + 1 + k
    BY DEF IInv, BlockedReadGetsNextKeys, KeyToReader
  <2>2. \A k \in 0 .. eax' - 1 : buf'[k] = typed' - eax' + 1 + k
    BY <1>1, <1>3, <1>4, <2>1
  <2> QED
    BY <2>2 DEF BlockedReadGetsNextKeys
<1>13. Queue'
  <2> SUFFICES ASSUME orderly' PROVE got' \o Arriving' \o Buffered' = accepted'
    BY DEF Queue
  <2>1. Buffered = <<>> /\ Buffered' = <<>>
    BY <1>1 DEF Buffered, Prefix, KeyToReader
  <2>2. accepted = got \o Prefix(buf, eax)
    <3>1. got \o Arriving \o Buffered = accepted /\ Arriving = Prefix(buf, eax)
      BY DEF IInv, Queue, KeyToReader, Arriving
    <3>2. got \o Prefix(buf, eax) \in Seq(Char)
      BY <1>2, <1>6, ConcatProperties
    <3> QED
      BY <2>1, <3>1, <3>2, ConcatEmptySeq
  <2>3. accepted' = got \o Prefix(buf', eax')
    <3>1. got \o Append(Prefix(buf, eax), typed') = Append(got \o Prefix(buf, eax), typed')
      BY <1>1, <1>2, <1>6, QueueGrows
    <3> QED
      BY <1>5, <2>2, <3>1 DEF KeyToReader
  <2>4. got' \o Arriving' = got \o Prefix(buf', eax')
    <3>1. CASE edx' = 0
      <4>1. Arriving' = <<>> /\ got' = got \o Prefix(buf', eax')
        BY <3>1 DEF KeyToReader, Arriving
      <4> QED
        BY <1>8, <4>1, ConcatEmptySeq
    <3>2. CASE edx' # 0
      BY <3>2 DEF KeyToReader, Arriving
    <3> QED
      BY <3>1, <3>2
  <2> QED
    BY <1>7, <2>1, <2>3, <2>4, ConcatEmptySeq
<1> QED
  BY <1>9, <1>10, <1>11, <1>12, <1>13 DEF IInv

\* Nothing arrives at a process that does not read.
LEMMA NothingArrives == state # "BLOCKED_KEYBOARD" => Arriving = <<>>
BY DEF Arriving

\* What a key does to the buffer of a running process.
LEMMA KeyToBufferIInv == IInv /\ KeyToBuffer => IInv'
<1> SUFFICES ASSUME IInv, KeyToBuffer PROVE IInv'
  OBVIOUS
<1>1. /\ typed' \in Char /\ stdinIndex \in 0 .. MAX_STDIN_BUFFER_SIZE - 1
      /\ stdinBuffer \in [0 .. MAX_STDIN_BUFFER_SIZE - 1 -> Char]
      /\ got \in Seq(Char) /\ accepted \in Seq(Char) /\ MAX_STDIN_BUFFER_SIZE \in Nat
  BY SizesAssumption, BoundsAssumption DEF IInv, TypeOK, KeyToBuffer, Press, Char
<1>2. stdinSize' \in Sizes /\ stdinSize' \in MIN_STDIN_BUFFER_SIZE .. MAX_STDIN_BUFFER_SIZE
  BY SizesDouble DEF IInv, KeyToBuffer, Grown
<1>3. stdinIndex' \in 0 .. stdinSize'
  BY <1>1, SizesAssumption DEF IInv, TypeOK, KeyToBuffer, Grown
<1>4. accepted' \in Seq(Char)
  BY <1>1, AppendProperties DEF KeyToBuffer
<1>5. TypeOK'
  BY <1>1, <1>2, <1>3, <1>4 DEF IInv, TypeOK, KeyToBuffer, Press, Char
<1>6. Waiting' /\ BlockedReadGetsNextKeys'
  BY DEF Waiting, BlockedReadGetsNextKeys, KeyToBuffer
<1>7. Queue'
  <2> SUFFICES ASSUME orderly' PROVE got' \o Arriving' \o Buffered' = accepted'
    BY DEF Queue
  <2>1. Arriving = <<>> /\ Arriving' = <<>>
    BY DEF KeyToBuffer, Arriving
  <2>2. Buffered \in Seq(Char) /\ Buffered' = Append(Buffered, typed')
    <3>1. stdinIndex \in 0 .. MAX_STDIN_BUFFER_SIZE
      BY <1>1
    <3>2. Buffered \in Seq(Char)
      BY <1>1, <3>1, PrefixType DEF Buffered
    <3>3. Prefix([stdinBuffer EXCEPT ![stdinIndex] = typed'], stdinIndex + 1)
          = Append(Prefix(stdinBuffer, stdinIndex), typed')
      BY <1>1, PrefixGrows
    <3> QED
      BY <3>2, <3>3 DEF Buffered, KeyToBuffer
  <2>3. got \o Buffered = accepted
    BY <1>1, <2>1, ConcatEmptySeq DEF IInv, Queue, KeyToBuffer
  <2>4. got' \o Arriving' = got
    BY <1>1, <2>1, ConcatEmptySeq DEF KeyToBuffer
  <2> QED
    BY <1>1, <2>2, <2>3, <2>4, QueueGrows DEF KeyToBuffer
<1> QED
  BY <1>2, <1>5, <1>6, <1>7 DEF IInv

\* The keys that are not stored.
LEMMA KeySetbackIInv == IInv /\ KeySetback => IInv'
<1> SUFFICES ASSUME IInv, KeySetback PROVE IInv'
  OBVIOUS
<1>1. /\ typed' \in 0 .. MaxTyped /\ accepted \in Seq(Char) /\ typed' \in Char
      /\ stdinBuffer \in [0 .. MAX_STDIN_BUFFER_SIZE - 1 -> Char]
  BY BoundsAssumption DEF IInv, TypeOK, KeySetback, Press, Char
<1>2. stdinBuffer' \in [0 .. MAX_STDIN_BUFFER_SIZE - 1 -> Char]
  BY <1>1, SizesAssumption DEF KeySetback
<1>3. accepted' \in Seq(Char)
  BY <1>1, AppendProperties DEF KeySetback
<1>4. TypeOK'
  BY <1>1, <1>2, <1>3 DEF IInv, TypeOK, KeySetback
<1> QED
  BY <1>4 DEF IInv, Waiting, BlockedReadGetsNextKeys, Queue, KeySetback

LEMMA KeyIgnoredIInv == IInv /\ KeyIgnored => IInv'
<1> SUFFICES ASSUME IInv, KeyIgnored PROVE IInv'
  OBVIOUS
<1>1. TypeOK'
  BY BoundsAssumption DEF IInv, TypeOK, KeyIgnored, Press
<1>2. Queue'
  BY DEF IInv, Queue, Arriving, Buffered, KeyIgnored
<1> QED
  BY <1>1, <1>2 DEF IInv, Waiting, BlockedReadGetsNextKeys, KeyIgnored

-----------------------------------------------------------------------------
(* The steps of the process.                                               *)

LEMMA SysReadIInv == ASSUME IInv, NEW requested \in 0 .. MaxRead, SysRead(requested) PROVE IInv'
<1> DEFINE count == IF requested > stdinIndex THEN stdinIndex ELSE requested
<1>1. /\ stdinIndex \in Nat /\ stdinSize \in Nat /\ stdinIndex <= stdinSize
      /\ stdinSize <= MAX_STDIN_BUFFER_SIZE /\ MAX_STDIN_BUFFER_SIZE \in Nat
      /\ MaxRead \in Nat /\ requested \in Nat /\ requested <= MaxRead
      /\ stdinBuffer \in [0 .. MAX_STDIN_BUFFER_SIZE - 1 -> Char]
      /\ buf \in [0 .. MaxRead - 1 -> Char]
      /\ got \in Seq(Char) /\ accepted \in Seq(Char)
  BY SizesAssumption, BoundsAssumption DEF IInv, TypeOK
<1>2. count \in 0 .. stdinIndex /\ count \in 0 .. requested /\ (count # requested => count = stdinIndex)
  BY <1>1
<1>3. state = "RUNNING" /\ Take(count)
  BY DEF SysRead
<1>4. \/ /\ count # requested
         /\ state' = "BLOCKED_KEYBOARD" /\ edx' = requested - count /\ eax' = 0 /\ got' = got
      \/ /\ count = requested
         /\ state' = "RUNNING" /\ edx' = edx /\ eax' = count /\ got' = got \o Prefix(buf', count)
  BY DEF SysRead, Waits
<1>5. /\ orderly' = (orderly /\ (count = 0 \/ (count = requested /\ stdinIndex - count <= count)))
      /\ stdinSize' = stdinSize /\ typed' = typed /\ accepted' = accepted
  BY DEF SysRead
<1> HIDE DEF count
<1>6. /\ stdinIndex' = stdinIndex - count /\ stdinIndex' \in 0 .. stdinSize'
      /\ \A k \in 0 .. MaxRead - 1 : buf'[k] = IF k < count THEN stdinBuffer[k] ELSE buf[k]
      /\ \A k \in 0 .. MAX_STDIN_BUFFER_SIZE - 1 :
            stdinBuffer'[k] = IF k < count THEN At(count + k) ELSE stdinBuffer[k]
  BY <1>1, <1>2, <1>3, <1>5 DEF Take
<1>7. buf' \in [0 .. MaxRead - 1 -> Char]
  BY <1>1, <1>2, <1>3 DEF Take
<1>8. stdinBuffer' \in [0 .. MAX_STDIN_BUFFER_SIZE - 1 -> Char]
  <2>1. \A k \in 0 .. MAX_STDIN_BUFFER_SIZE - 1 : At(count + k) \in Char
    BY <1>1, <1>2, BoundsAssumption DEF At, Char, Junk
  <2> QED
    BY <1>1, <1>3, <2>1 DEF Take
<1>9. Prefix(buf', count) \in Seq(Char)
  BY <1>1, <1>2, <1>7, PrefixType
<1>10. got' \in Seq(Char)
  <2>1. got \o Prefix(buf', count) \in Seq(Char)
    BY <1>1, <1>9, ConcatProperties
  <2> QED
    BY <1>1, <1>4, <2>1
<1>11. TypeOK'
  <2>1. eax' \in 0 .. MaxRead /\ edx' \in 0 .. MaxRead
    BY <1>1, <1>2, <1>4 DEF IInv, TypeOK
  <2>2. state' \in {"RUNNING", "BLOCKED_KEYBOARD", "BLOCKED_WAITPID"} /\ orderly' \in BOOLEAN
    BY <1>4, <1>5
  <2> QED
    BY <1>5, <1>6, <1>7, <1>8, <1>10, <2>1, <2>2 DEF IInv, TypeOK
<1>12. Waiting' /\ BlockedReadGetsNextKeys' /\ (stdinSize \in Sizes)'
  BY <1>1, <1>2, <1>4, <1>5, <1>6 DEF IInv, Waiting, BlockedReadGetsNextKeys
<1>13. Queue'
  <2> SUFFICES ASSUME orderly' PROVE got' \o Arriving' \o Buffered' = accepted'
    BY DEF Queue
  <2>1. got \o Buffered = accepted
    BY <1>1, <1>3, <1>5, NothingArrives, ConcatEmptySeq DEF IInv, Queue
  <2>2. Prefix(buf', count) \o Buffered' = Buffered
    <3>1. /\ count \in Nat /\ count <= stdinIndex /\ count <= MaxRead
          /\ stdinIndex \in 0 .. MAX_STDIN_BUFFER_SIZE
      BY <1>1, <1>2
    <3>2. count = 0 \/ stdinIndex - count <= count
      BY <1>5
    <3>3. ASSUME NEW k \in 0 .. count - 1 PROVE buf'[k] = stdinBuffer[k]
      <4>1. k \in 0 .. MaxRead - 1 /\ k < count
        BY <1>1, <3>1
      <4> QED
        BY <1>6, <4>1
    <3>4. ASSUME NEW k \in 0 .. stdinIndex - count - 1
          PROVE  stdinBuffer'[k] = stdinBuffer[count + k]
      <4>1. k \in 0 .. MAX_STDIN_BUFFER_SIZE - 1 /\ count + k < stdinSize
        BY <1>1, <3>1
      <4>2. CASE count = 0
        BY <1>1, <1>6, <4>1, <4>2
      <4>3. CASE stdinIndex - count <= count
        <5>1. k < count
          BY <1>1, <3>1, <4>3
        <5> QED
          BY <1>6, <4>1, <5>1 DEF At
      <4> QED
        BY <3>2, <4>2, <4>3
    <3>5. Prefix(buf', count) \o Prefix(stdinBuffer', stdinIndex - count)
          = Prefix(stdinBuffer, stdinIndex)
      <4>1. /\ MAX_STDIN_BUFFER_SIZE \in Nat /\ MaxRead \in Nat
            /\ stdinBuffer \in [0 .. MAX_STDIN_BUFFER_SIZE - 1 -> Char]
            /\ count \in 0 .. stdinIndex
        BY <1>1, <1>2
      <4>2. /\ \A k \in 0 .. count - 1 : buf'[k] = stdinBuffer[k]
            /\ \A k \in 0 .. stdinIndex - count - 1 : stdinBuffer'[k] = stdinBuffer[count + k]
        BY <3>3, <3>4
      <4> QED
        BY <1>7, <1>8, <3>1, <4>1, <4>2, PrefixSplits
    <3> QED
      BY <1>6, <3>5 DEF Buffered
  <2>3. got' \o Arriving' = got \o Prefix(buf', count)
    <3>1. CASE count # requested
      <4>1. Arriving' = Prefix(buf', 0) /\ count = 0 /\ got' = got
        BY <1>4, <1>5, <3>1 DEF Arriving
      <4> QED
        BY <4>1
    <3>2. CASE count = requested
      <4>1. Arriving' = <<>> /\ got' = got \o Prefix(buf', count)
        BY <1>4, <3>2 DEF Arriving
      <4> QED
        BY <1>10, <4>1, ConcatEmptySeq
    <3> QED
      BY <3>1, <3>2
  <2>4. Buffered' \in Seq(Char)
    <3>1. stdinIndex' \in 0 .. MAX_STDIN_BUFFER_SIZE
      BY <1>1, <1>2, <1>6
    <3>2. Prefix(stdinBuffer', stdinIndex') \in Seq(Char)
      BY <1>1, <1>2, <1>8, <3>1, PrefixType
    <3> QED
      BY <3>2 DEF Buffered
  <2> QED
    <3>1. (got \o Prefix(buf', count)) \o Buffered' = got \o (Prefix(buf', count) \o Buffered')
      <4>1. got \in Seq(Char)
        BY <1>1
      <4> QED
        BY <1>9, <2>4, <4>1, ConcatAssociative
    <3> QED
      BY <1>5, <2>1, <2>2, <2>3, <3>1
<1> QED
  BY <1>11, <1>12, <1>13 DEF IInv

LEMMA SysExecvpIInv == IInv /\ SysExecvp => IInv'
<1> SUFFICES ASSUME IInv, SysExecvp PROVE IInv'
  OBVIOUS
<1>1. stdinBuffer' \in [0 .. MAX_STDIN_BUFFER_SIZE - 1 -> Char]
  BY BoundsAssumption DEF IInv, TypeOK, SysExecvp, Char, Junk
<1>2. TypeOK'
  BY <1>1, SizesAssumption DEF IInv, TypeOK, SysExecvp
<1>3. Queue'
  <2>1. Arriving' = <<>> /\ Buffered' = <<>> /\ got \in Seq(Char)
    BY DEF IInv, TypeOK, Arriving, Buffered, Prefix, SysExecvp
  <2> QED
    BY <2>1, ConcatEmptySeq DEF Queue, SysExecvp
<1> QED
  BY <1>2, <1>3 DEF IInv, Waiting, BlockedReadGetsNextKeys, SysExecvp

LEMMA ChildIInv == IInv /\ (SysWaitpid \/ ChildExits) => IInv'
<1> SUFFICES ASSUME IInv, SysWaitpid \/ ChildExits PROVE IInv'
  OBVIOUS
<1>1. Queue'
  BY DEF IInv, Queue, Arriving, Buffered, SysWaitpid, ChildExits
<1> QED
  BY <1>1 DEF IInv, TypeOK, Waiting, BlockedReadGetsNextKeys, SysWaitpid, ChildExits

LEMMA NextIInv == IInv /\ [Next]_vars => IInv'
<1> SUFFICES ASSUME IInv, [Next]_vars PROVE IInv'
  OBVIOUS
<1>1. CASE UNCHANGED vars
  BY <1>1 DEF vars, IInv, TypeOK, Waiting, BlockedReadGetsNextKeys, Queue, Arriving, Buffered
<1>2. CASE Next
  BY <1>2, KeyToReaderIInv, KeyToBufferIInv, KeySetbackIInv, KeyIgnoredIInv, SysReadIInv,
     SysExecvpIInv, ChildIInv DEF Next
<1> QED
  BY <1>1, <1>2

-----------------------------------------------------------------------------
(* The theorems about the standard input.                                  *)

THEOREM Invariant == Spec => []IInv
BY InitIInv, NextIInv, PTL DEF Spec

\* Nothing is written behind the buffer of the process or that of its read, and
\* as long as no read has left more behind than it took or found less than it
\* wanted, and the buffer is not of the largest size, every key is read once
\* and in order (usermode.c:1860-1909, idt.c:246-314).
THEOREM InputAlwaysAQueue == Spec => []InputIsAQueue
<1>1. IInv => InputIsAQueue
  BY DEF IInv, Queue, InputIsAQueue
<1> QED
  BY <1>1, Invariant, PTL

\* A read that waits holds the last keys that were pressed, in order.
THEOREM BlockedReadsGetNextKeys == Spec => []BlockedReadGetsNextKeys
<1>1. IInv => BlockedReadGetsNextKeys
  BY DEF IInv
<1> QED
  BY <1>1, Invariant, PTL

-----------------------------------------------------------------------------
(* The shell.                                                              *)

-----------------------------------------------------------------------------
(* Memory and the strings in it.                                           *)

Cell == Letters \cup {Nul}

\* A string stands in memory: its characters, none of them '\0', and a '\0'.
Stands(mem, at, string) ==
    /\ at + Len(string) \in DOMAIN mem /\ mem[at + Len(string)] = Nul
    /\ \A k \in 1 .. Len(string) : mem[at + k - 1] = string[k] /\ string[k] # Nul

\* Numbers have a smallest one.
LEMMA SmallestOf ==
    ASSUME NEW A \in SUBSET Nat, A # {}
    PROVE  \E m \in A : \A n \in A : m <= n
<1>1. IsWellFoundedOn(OpToRel(<, Nat), Nat)
  BY NatLessThanWellFounded
<1>2. PICK m \in A : \A n \in A : ~ (<<n, m>> \in OpToRel(<, Nat))
  BY <1>1, WFMin
<1>3. \A n \in A : ~ n < m
  BY <1>2 DEF OpToRel
<1> QED
  BY <1>3

\* A string that stands in memory is the one that is read there.
LEMMA StandsIs ==
    ASSUME NEW n \in Nat, NEW mem \in [0 .. n -> Cell], NEW at \in Nat, NEW string \in Seq(Cell),
           Stands(mem, at, string)
    PROVE  StringAt(mem, at) = string
<1> DEFINE ends == {i \in DOMAIN mem : i >= at /\ mem[i] = Nul}
           l    == Len(string)
<1>1. l \in Nat /\ string = [k \in 1 .. l |-> string[k]]
  OBVIOUS
<1>2. /\ at + l \in 0 .. n /\ mem[at + l] = Nul
      /\ \A k \in 1 .. l : mem[at + k - 1] = string[k] /\ string[k] # Nul
  BY DEF Stands
<1> HIDE DEF l
<1>3. at + l \in ends
  BY <1>1, <1>2
<1>4. ASSUME NEW i \in ends PROVE at + l <= i
  <2> SUFFICES ASSUME i < at + l PROVE FALSE
    BY <1>1
  <2>1. i - at + 1 \in 1 .. l /\ at + (i - at + 1) - 1 = i
    BY <1>1
  <2> QED
    BY <1>2, <2>1
<1>5. Min(ends) = at + l
  <2>1. \A i \in ends : i \in Int
    OBVIOUS
  <2> HIDE DEF ends
  <2>2. at + l \in Int
    BY <1>1
  <2> QED
    BY <1>3, <1>4, <2>1, <2>2 DEF Min
<1>6. StringAt(mem, at) = [k \in 1 .. at + l - at |-> mem[at + k - 1]]
  BY <1>5 DEF StringAt
<1>7. at + l - at = l
  BY <1>1
<1>8. StringAt(mem, at) = [k \in 1 .. l |-> mem[at + k - 1]]
  BY <1>6, <1>7
<1> QED
  BY <1>1, <1>2, <1>8

\* What is read from memory stands there.
LEMMA StringStands ==
    ASSUME NEW n \in Nat, NEW mem \in [0 .. n -> Cell], NEW at \in Nat,
           \E i \in at .. n : mem[i] = Nul
    PROVE  /\ StringAt(mem, at) \in Seq(Cell) /\ Stands(mem, at, StringAt(mem, at))
           /\ at + Len(StringAt(mem, at)) <= n
           /\ \A i \in at .. n : mem[i] = Nul => at + Len(StringAt(mem, at)) <= i
<1> DEFINE ends == {i \in at .. n : mem[i] = Nul}
<1>1. PICK e \in ends : \A i \in ends : e <= i
  <2>1. ends \in SUBSET Nat /\ ends # {}
    OBVIOUS
  <2> HIDE DEF ends
  <2> QED
    BY <2>1, SmallestOf
<1> DEFINE l == e - at
           string == [k \in 1 .. l |-> mem[at + k - 1]]
<1>2. e \in at .. n /\ mem[e] = Nul /\ \A i \in at .. n : mem[i] = Nul => e <= i
  BY <1>1
<1> HIDE DEF ends
<1>3. l \in Nat /\ at + l = e /\ \A k \in 1 .. l : at + k - 1 \in at .. n /\ at + k - 1 < e
  BY <1>2
<1> HIDE DEF l
<1>4. string \in [1 .. l -> Cell] /\ \A k \in 1 .. l : string[k] = mem[at + k - 1]
  BY <1>2, <1>3
<1> HIDE DEF string
<1>5. string \in Seq(Cell) /\ Len(string) = l
  <2>1. string \in Seq(Cell)
    BY <1>3, <1>4, SeqDef
  <2> QED
    BY <1>3, <1>4, <2>1, LenProperties
<1>6. \A k \in 1 .. l : string[k] # Nul
  <2> SUFFICES ASSUME NEW k \in 1 .. l, string[k] = Nul PROVE FALSE
    OBVIOUS
  <2>1. e <= at + k - 1 /\ at + k - 1 < e
    BY <1>2, <1>3, <1>4
  <2> QED
    BY <1>2, <1>3, <2>1
<1>7. Stands(mem, at, string)
  BY <1>2, <1>3, <1>4, <1>5, <1>6 DEF Stands
<1>8. StringAt(mem, at) = string
  BY <1>5, <1>7, StandsIs
<1> QED
  BY <1>2, <1>3, <1>5, <1>7, <1>8

\* A string that was copied stands where it was copied to, and the rest is as
\* it was.
LEMMA CopiedIs ==
    ASSUME NEW n \in Nat, NEW mem \in [0 .. n -> Cell], NEW at \in Nat, NEW string \in Seq(Cell)
    PROVE  LET new == Copied(mem, at, string) IN
           /\ new \in [0 .. n -> Cell]
           /\ \A i \in 0 .. n : i < at \/ i > at + Len(string) => new[i] = mem[i]
           /\ at + Len(string) <= n /\ (\A k \in 1 .. Len(string) : string[k] # Nul)
              => Stands(new, at, string)
<1> DEFINE new == Copied(mem, at, string)
           l   == Len(string)
<1>1. l \in Nat /\ \A k \in 1 .. l : string[k] \in Cell
  OBVIOUS
<1>2. DOMAIN mem = 0 .. n /\ Nul \in Cell
  BY DEF Cell
<1>3. new = [i \in 0 .. n |-> IF i \in at .. at + l - 1 THEN string[i - at + 1]
                              ELSE IF i = at + l THEN Nul ELSE mem[i]]
  BY <1>2 DEF Copied
<1> HIDE DEF new, l
<1>4. \A i \in at .. at + l - 1 : i - at + 1 \in 1 .. l
  BY <1>1
<1>5. new \in [0 .. n -> Cell]
  BY <1>1, <1>2, <1>3, <1>4
<1>6. \A i \in 0 .. n : i < at \/ i > at + l => new[i] = mem[i]
  BY <1>1, <1>3
<1>7. ASSUME at + l <= n, \A k \in 1 .. l : string[k] # Nul
      PROVE  Stands(new, at, string)
  <2>1. at + l \in 0 .. n /\ new[at + l] = Nul
    BY <1>1, <1>3, <1>7
  <2>2. ASSUME NEW k \in 1 .. l PROVE new[at + k - 1] = string[k]
    <3>1. at + k - 1 \in 0 .. n /\ at + k - 1 \in at .. at + l - 1 /\ at + k - 1 - at + 1 = k
      BY <1>1, <1>7
    <3> QED
      BY <1>3, <3>1
  <2> QED
    BY <1>5, <1>7, <2>1, <2>2 DEF Stands, l
<1> QED
  BY <1>5, <1>6, <1>7 DEF new, l

-----------------------------------------------------------------------------
(* The invariant of the shell.                                             *)

\* The fields of the shell, the line and the history.
LastCell == MAX_LINE_LENGTH * HISTORY_SIZE - 1
Fields == {"cmd", "index", "cursor", "scroll", "count", "cwd", "history", "exited", "undefined",
           "astray", "strayed", "entered"}
Edited(s) ==
    /\ s.cmd \in [0 .. MAX_LINE_LENGTH -> Cell]
    /\ s.index \in 0 .. MAX_LINE_LENGTH
    /\ s.cursor \in Int /\ s.scroll \in 0 .. s.count

\* As long as every line fits in its entry, each stands in its own, and nothing
\* in the next ones.
Fit(s) == \A k \in 1 .. s.count : Len(s.entered[k]) < HISTORY_SIZE
Kept(s) ==
    /\ s.count \in 0 .. HISTORY_SIZE
    /\ s.history \in [0 .. LastCell -> Cell] /\ s.history[LastCell] = Nul
    /\ s.entered \in Seq(Seq(Cell)) /\ Len(s.entered) = s.count
    /\ Fit(s) => /\ \A k \in 1 .. s.count : Stands(s.history, Entry(k - 1), s.entered[k])
                 /\ \A i \in Entry(s.count) .. LastCell : s.history[i] = Nul
HistoryInv(s) == DOMAIN s = Fields /\ Edited(s) /\ Kept(s)

\* The cursor is on the line, and nothing undefined was done, unless the user
\* strayed before; for a line that is about to be shown, or is astray.
InOrder(s) == ~ s.strayed => s.cursor \in 0 .. s.index /\ (Fit(s) => ~ s.undefined)
Sane(s) == s.astray \/ InOrder(s)
LineInv(s) == HistoryInv(s) /\ InOrder(s)

\* A line behind any number of full entries still ends within the history.
LEMMA SizesOfHistory ==
    /\ MAX_LINE_LENGTH \in Nat /\ HISTORY_SIZE \in Nat /\ LastCell \in Nat
    /\ 2 <= HISTORY_SIZE /\ HISTORY_SIZE < MAX_LINE_LENGTH
    /\ \A k \in 0 .. HISTORY_SIZE : Entry(k) \in 0 .. LastCell
    /\ \A k \in 0 .. HISTORY_SIZE - 1 : Entry(k) + MAX_LINE_LENGTH <= LastCell
    /\ \A j, k \in 0 .. HISTORY_SIZE : j < k => Entry(j) + HISTORY_SIZE <= Entry(k)
<1> DEFINE M == MAX_LINE_LENGTH
           H == HISTORY_SIZE
<1>1. M \in Nat /\ H \in Nat /\ 2 <= H /\ H + 1 <= M
  BY ShellAssumption
<1> HIDE DEF M, H
<1>2. M * H \in Nat /\ H * H \in Nat
  BY <1>1
<1>3. (H + 1) * H <= M * H /\ (H + 1) * H = H * H + H
  BY <1>1
<1>4. LastCell = M * H - 1
  BY DEF LastCell, M, H
<1>5. LastCell \in Nat
  BY <1>1, <1>2, <1>3, <1>4
<1>6. ASSUME NEW j \in 0 .. H, NEW k \in 0 .. H, j <= k
      PROVE  j * H \in Nat /\ k * H \in Nat /\ j * H <= k * H
  BY <1>1, <1>6
<1>7. ASSUME NEW k \in 0 .. H PROVE k * H \in 0 .. LastCell
  <2>1. k * H <= H * H
    BY <1>1, <1>6
  <2> QED
    BY <1>1, <1>2, <1>3, <1>4, <1>6, <2>1
<1>8. ASSUME NEW k \in 0 .. H - 1 PROVE k * H + M <= LastCell
  <2>1. k * H <= (H - 1) * H /\ (H - 1) * H = H * H - H
    BY <1>1, <1>6
  <2>2. (M - H) * (H - 1) = M * H - M - H * H + H
    BY <1>1
  <2>3. (M - H) * (H - 1) >= 1
    BY <1>1
  <2> QED
    BY <1>1, <1>2, <1>4, <1>6, <2>1, <2>2, <2>3
<1>9. ASSUME NEW j \in 0 .. H, NEW k \in 0 .. H, j < k PROVE j * H + H <= k * H
  <2>1. j + 1 \in 0 .. H /\ (j + 1) * H = j * H + H
    BY <1>1, <1>9
  <2> QED
    BY <1>6, <1>9, <2>1
<1> QED
  BY <1>1, <1>5, <1>7, <1>8, <1>9 DEF M, H, Entry

\* A step that leaves the history as it was.
LEMMA StaysKept ==
    ASSUME NEW s, NEW t, HistoryInv(s), DOMAIN t = Fields, Edited(t),
           t.count = s.count, t.history = s.history, t.entered = s.entered
    PROVE  HistoryInv(t)
BY DEF HistoryInv, Kept, Fit

\* Neither does what only notes where the user strayed.
LEMMA ShownInv ==
    ASSUME NEW s, HistoryInv(s)
    PROVE  HistoryInv(Shown(s)) /\ HistoryInv(Undefined(s))
<1>1. ASSUME NEW t, t = Shown(s) PROVE HistoryInv(t)
  <2>1. /\ DOMAIN t = Fields /\ t.cmd = s.cmd /\ t.index = s.index /\ t.cursor = s.cursor
        /\ t.scroll = s.scroll /\ t.count = s.count /\ t.history = s.history
        /\ t.entered = s.entered
    BY <1>1 DEF HistoryInv, Fields, Shown
  <2> QED
    BY <2>1, StaysKept DEF HistoryInv, Edited
<1>2. ASSUME NEW t, t = Undefined(s) PROVE HistoryInv(t)
  <2>1. /\ DOMAIN t = Fields /\ t.cmd = s.cmd /\ t.index = s.index /\ t.cursor = s.cursor
        /\ t.scroll = s.scroll /\ t.count = s.count /\ t.history = s.history
        /\ t.entered = s.entered
    BY <1>2 DEF HistoryInv, Fields, Undefined
  <2> QED
    BY <2>1, StaysKept DEF HistoryInv, Edited
<1> QED
  BY <1>1, <1>2

\* A line that is shown is in order if it was, or is astray from now on.
LEMMA ShownInOrder ==
    ASSUME NEW s, DOMAIN s = Fields, Sane(s)
    PROVE  InOrder(Shown(s))
<1> DEFINE t == Shown(s)
<1>1. t.cursor = s.cursor /\ t.index = s.index /\ t.undefined = s.undefined
  BY DEF Shown, Fields
<1>2. Fit(t) => Fit(s)
  BY DEF Shown, Fields, Fit
<1>3. ~ t.strayed => ~ s.strayed /\ ~ s.astray
  BY DEF Shown, Fields
<1> HIDE DEF t
<1>4. InOrder(t)
  BY <1>1, <1>2, <1>3, Zenon DEF InOrder, Sane
<1> QED
  BY <1>4 DEF t

\* What is recalled ends in the history, whose last cell is always '\0'.  If the
\* entries fit it is one of them, or nothing.
LEMMA RecallInv ==
    ASSUME NEW s, HistoryInv(s), NEW scroll \in 0 .. s.count
    PROVE  /\ HistoryInv(Recall(s, scroll, Recalled(s, s.count - scroll)))
           /\ InOrder(s) => InOrder(Recall(s, scroll, Recalled(s, s.count - scroll)))
<1> DEFINE string == Recalled(s, s.count - scroll)
           t == Recall(s, scroll, string)
           at == Entry(s.count - scroll)
<1>1. s.count - scroll \in 0 .. HISTORY_SIZE
  <2>1. s.count \in 0 .. HISTORY_SIZE
    BY DEF HistoryInv, Kept
  <2>2. HISTORY_SIZE \in Nat
    BY SizesOfHistory
  <2> QED
    BY <2>1, <2>2
<1>2. at \in 0 .. LastCell /\ LastCell \in Nat /\ MAX_LINE_LENGTH \in Nat
  BY <1>1, SizesOfHistory
<1>3. s.history \in [0 .. LastCell -> Cell] /\ s.history[LastCell] = Nul
  BY DEF HistoryInv, Kept
<1>4. string = StringAt(s.history, at)
  BY DEF Recalled
<1> HIDE DEF at, string
<1>5. /\ string \in Seq(Cell) /\ Len(string) \in Nat
      /\ \A k \in 1 .. Len(string) : string[k] # Nul
  <2>1. \E i \in at .. LastCell : s.history[i] = Nul
    BY <1>2, <1>3
  <2>2. at \in Nat
    BY <1>2
  <2>3. string \in Seq(Cell) /\ Stands(s.history, at, string)
    BY <1>2, <1>3, <1>4, <2>1, <2>2, StringStands
  <2> QED
    BY <2>3 DEF Stands
<1>6. Fit(s) => Len(string) < HISTORY_SIZE
  <2> SUFFICES ASSUME Fit(s) PROVE Len(string) < HISTORY_SIZE
    OBVIOUS
  <2>1. s.count \in 0 .. HISTORY_SIZE /\ HISTORY_SIZE \in Nat /\ 2 <= HISTORY_SIZE /\ at \in Nat
    BY <1>2, SizesOfHistory DEF HistoryInv, Kept
  <2>2. CASE scroll = 0
    <3>1. s.count - scroll = s.count
      BY <2>1, <2>2
    <3>2. s.history[at] = Nul
      BY <1>2, <3>1 DEF HistoryInv, Kept, at
    <3>3. at + Len(string) <= at
      <4>1. \E i \in at .. LastCell : s.history[i] = Nul
        BY <1>2, <1>3
      <4>2. \A i \in at .. LastCell : s.history[i] = Nul => at + Len(string) <= i
        BY <1>2, <1>3, <1>4, <2>1, <4>1, StringStands
      <4>3. at \in at .. LastCell
        BY <1>2
      <4> QED
        BY <3>2, <4>2, <4>3
    <3> QED
      BY <1>5, <2>1, <3>3
  <2>3. CASE scroll # 0
    <3> DEFINE k == s.count - scroll + 1
    <3>1. k \in 1 .. s.count /\ k - 1 = s.count - scroll
      BY <2>1, <2>3
    <3>2. Stands(s.history, at, s.entered[k]) /\ Len(s.entered[k]) < HISTORY_SIZE
      <4> HIDE DEF k
      <4> QED
        BY <3>1 DEF HistoryInv, Kept, Fit, at
    <3>3. s.entered[k] \in Seq(Cell)
      <4> HIDE DEF k
      <4>1. s.entered \in Seq(Seq(Cell)) /\ Len(s.entered) = s.count
        BY DEF HistoryInv, Kept
      <4> QED
        BY <3>1, <4>1
    <3> HIDE DEF k
    <3>4. string = s.entered[k]
      BY <1>2, <1>3, <1>4, <2>1, <3>2, <3>3, StandsIs
    <3> QED
      BY <3>2, <3>4
  <2> QED
    BY <2>2, <2>3
<1>7. CASE Len(string) > MAX_LINE_LENGTH
  <2>1. t = Undefined(s)
    BY <1>7 DEF Recall
  <2> HIDE DEF t
  <2>2. HistoryInv(t)
    BY <2>1, ShownInv
  <2>3. ASSUME Fit(s) PROVE FALSE
    <3>1. Len(string) < HISTORY_SIZE
      BY <2>3, <1>6
    <3> QED
      BY <1>2, <1>5, <1>7, <3>1, SizesOfHistory
  <2>4. /\ t.strayed = s.strayed /\ t.cursor = s.cursor /\ t.index = s.index
        /\ Fit(t) => Fit(s)
    BY <2>1 DEF HistoryInv, Fields, Undefined, Fit
  <2>5. InOrder(s) => InOrder(t)
    BY <2>3, <2>4, Zenon DEF InOrder
  <2> QED
    BY <2>2, <2>5 DEF t, string
<1>8. CASE ~ Len(string) > MAX_LINE_LENGTH
  <2> DEFINE cmd == Copied(s.cmd, 0, string)
  <2>1. cmd \in [0 .. MAX_LINE_LENGTH -> Cell]
    <3>1. s.cmd \in [0 .. MAX_LINE_LENGTH -> Cell]
      BY DEF HistoryInv, Edited
    <3> QED
      BY <1>2, <1>5, <3>1, CopiedIs
  <2> HIDE DEF cmd
  <2>2. t = [s EXCEPT !.scroll = scroll, !.cmd = cmd, !.index = Len(string), !.cursor = Len(string)]
    BY <1>8 DEF Recall, cmd
  <2>3. /\ DOMAIN t = Fields /\ t.cmd = cmd /\ t.index = Len(string) /\ t.cursor = Len(string)
        /\ t.scroll = scroll /\ t.count = s.count /\ t.history = s.history
        /\ t.entered = s.entered /\ t.strayed = s.strayed /\ t.undefined = s.undefined
    BY <2>2 DEF HistoryInv, Fields
  <2>4. Edited(t)
    BY <1>2, <1>5, <1>8, <2>1, <2>3 DEF Edited
  <2> HIDE DEF t
  <2>5. HistoryInv(t)
    BY <2>3, <2>4, StaysKept
  <2>6. Fit(t) => Fit(s)
    BY <2>3 DEF Fit
  <2>7. t.cursor \in 0 .. t.index
    BY <1>5, <2>3
  <2>8. InOrder(s) => InOrder(t)
    BY <2>3, <2>6, <2>7, Zenon DEF InOrder
  <2> QED
    BY <2>5, <2>8 DEF t, string
<1> QED
  BY <1>7, <1>8 DEF string

\* Between two lines: what is left as it was, and a history that is no shorter.
Alike(s, t) ==
    /\ t.index = s.index /\ t.cursor = s.cursor /\ t.strayed = s.strayed
    /\ t.undefined = s.undefined
    /\ Fit(t) => Fit(s)

\* The '\0' behind the line.
LEMMA EndedInv ==
    ASSUME NEW s, HistoryInv(s)
    PROVE  /\ HistoryInv(Ended(s)) /\ Alike(s, Ended(s))
           /\ \E i \in 0 .. MAX_LINE_LENGTH : Ended(s).cmd[i] = Nul
<1> DEFINE t == Ended(s)
<1>1. s.cmd \in [0 .. MAX_LINE_LENGTH -> Cell] /\ s.index \in 0 .. MAX_LINE_LENGTH /\ Nul \in Cell
  BY DEF HistoryInv, Edited, Cell
<1>2. /\ DOMAIN t = Fields /\ t.cmd = [s.cmd EXCEPT ![s.index] = Nul] /\ t.index = s.index
      /\ t.cursor = s.cursor /\ t.scroll = s.scroll /\ t.count = s.count
      /\ t.history = s.history /\ t.entered = s.entered
  BY DEF HistoryInv, Fields, Ended
<1> HIDE DEF t
<1>3. t.cmd \in [0 .. MAX_LINE_LENGTH -> Cell] /\ t.cmd[s.index] = Nul
  BY <1>1, <1>2
<1>4. Edited(t)
  BY <1>2, <1>3 DEF HistoryInv, Edited
<1>5. HistoryInv(t)
  BY <1>2, <1>4, StaysKept
<1>6. Alike(s, t)
  <2>1. t.strayed = s.strayed /\ t.undefined = s.undefined
    BY DEF t, HistoryInv, Fields, Ended
  <2> QED
    BY <1>2, <2>1 DEF Alike, Fit
<1> QED
  BY <1>1, <1>3, <1>5, <1>6 DEF t

\* A line fits behind the entries before it, and a short one leaves them alone.
LEMMA RememberedInv ==
    ASSUME NEW s, HistoryInv(s), s.count < HISTORY_SIZE,
           \E i \in 0 .. MAX_LINE_LENGTH : s.cmd[i] = Nul
    PROVE  HistoryInv(Remember(s)) /\ Alike(s, Remember(s))
<1> DEFINE string  == StringAt(s.cmd, 0)
           at      == Entry(s.count)
           history == Copied(s.history, at, string)
           t       == Remember(s)
<1>1. /\ s.cmd \in [0 .. MAX_LINE_LENGTH -> Cell] /\ s.index \in 0 .. MAX_LINE_LENGTH
      /\ s.cursor \in Int /\ s.scroll \in 0 .. s.count
      /\ s.count \in 0 .. HISTORY_SIZE - 1
      /\ s.history \in [0 .. LastCell -> Cell] /\ s.history[LastCell] = Nul
      /\ s.entered \in Seq(Seq(Cell)) /\ Len(s.entered) = s.count
      /\ Fit(s) => /\ \A k \in 1 .. s.count : Stands(s.history, Entry(k - 1), s.entered[k])
                   /\ \A i \in Entry(s.count) .. LastCell : s.history[i] = Nul
  <2>1. s.count \in 0 .. HISTORY_SIZE /\ HISTORY_SIZE \in Nat
    BY SizesOfHistory DEF HistoryInv, Kept
  <2>2. s.count \in 0 .. HISTORY_SIZE - 1
    BY <2>1
  <2> QED
    BY <2>2 DEF HistoryInv, Edited, Kept
<1>2. MAX_LINE_LENGTH \in Nat /\ HISTORY_SIZE \in Nat /\ LastCell \in Nat
  BY SizesOfHistory
<1>3. at \in Nat /\ at + MAX_LINE_LENGTH <= LastCell
  BY <1>1, <1>2, SizesOfHistory
<1>4. /\ string \in Seq(Cell) /\ Len(string) \in 0 .. MAX_LINE_LENGTH
      /\ \A k \in 1 .. Len(string) : string[k] # Nul
  <2>1. string \in Seq(Cell) /\ Stands(s.cmd, 0, string) /\ 0 + Len(string) <= MAX_LINE_LENGTH
    BY <1>1, <1>2, StringStands
  <2>2. Len(string) \in Nat
    BY <2>1
  <2> QED
    BY <1>2, <2>1, <2>2 DEF Stands
<1>5. /\ DOMAIN t = Fields /\ t.cmd = s.cmd /\ t.index = s.index /\ t.cursor = s.cursor
      /\ t.scroll = s.scroll /\ t.count = s.count + 1 /\ t.history = history
      /\ t.entered = Append(s.entered, string)
      /\ t.strayed = s.strayed /\ t.undefined = s.undefined
  BY DEF HistoryInv, Fields, Remember
<1> HIDE DEF string, at
<1>6. /\ history \in [0 .. LastCell -> Cell]
      /\ \A i \in 0 .. LastCell : i < at \/ i > at + Len(string) => history[i] = s.history[i]
      /\ Stands(history, at, string)
  <2>1. at + Len(string) <= LastCell
    BY <1>2, <1>3, <1>4
  <2>2. s.history \in [0 .. LastCell -> Cell]
    BY <1>1
  <2>3. /\ history \in [0 .. LastCell -> Cell]
        /\ \A i \in 0 .. LastCell : i < at \/ i > at + Len(string) => history[i] = s.history[i]
        /\ at + Len(string) <= LastCell /\ (\A k \in 1 .. Len(string) : string[k] # Nul)
           => Stands(history, at, string)
    <3>1. LastCell \in Nat /\ at \in Nat /\ string \in Seq(Cell)
      BY <1>2, <1>3, <1>4
    <3> QED
      BY <2>2, <3>1, CopiedIs
  <2> QED
    BY <1>4, <2>1, <2>3
<1> HIDE DEF history, t
<1>7. history[LastCell] = Nul
  <2>1. LastCell > at + Len(string) \/ LastCell = at + Len(string)
    BY <1>2, <1>3, <1>4
  <2>2. LastCell \in 0 .. LastCell
    BY <1>2
  <2>3. history[at + Len(string)] = Nul
    BY <1>6 DEF Stands
  <2> QED
    BY <1>1, <1>6, <2>1, <2>2, <2>3
<1>8. /\ t.entered \in Seq(Seq(Cell)) /\ Len(t.entered) = t.count
      /\ t.entered[t.count] = string
      /\ \A k \in 1 .. s.count : t.entered[k] = s.entered[k]
  BY <1>1, <1>4, <1>5
<1>9. ASSUME Fit(t), NEW k \in 1 .. t.count
      PROVE  Stands(t.history, Entry(k - 1), t.entered[k])
  <2>1. CASE k = t.count
    <3>1. k - 1 = s.count
      BY <1>1, <1>5, <2>1
    <3> QED
      BY <1>5, <1>6, <1>8, <2>1, <3>1 DEF at
  <2>2. CASE k # t.count
    <3>1. k \in 1 .. s.count /\ \A j \in 1 .. s.count : Len(s.entered[j]) < HISTORY_SIZE
      BY <1>1, <1>5, <1>8, <1>9, <2>2 DEF Fit
    <3> DEFINE e == Entry(k - 1)
               l == Len(s.entered[k])
    <3>2. Stands(s.history, e, s.entered[k])
      BY <1>1, <3>1 DEF Fit
    <3>3. e \in Nat /\ e + HISTORY_SIZE <= at
      <4>1. k - 1 \in 0 .. HISTORY_SIZE /\ s.count \in 0 .. HISTORY_SIZE /\ k - 1 < s.count
        BY <1>1, <1>2, <3>1
      <4> QED
        BY <4>1, SizesOfHistory DEF at
    <3>4. l \in Nat /\ l < HISTORY_SIZE
      <4>1. s.entered[k] \in Seq(Cell)
        BY <1>1, <3>1
      <4> QED
        BY <3>1, <4>1
    <3> HIDE DEF e, l
    <3>5. \A i \in 0 .. l : history[e + i] = s.history[e + i] /\ e + i \in 0 .. LastCell
      BY <1>2, <1>3, <1>6, <3>3, <3>4
    <3>6. \A j \in 1 .. l : j - 1 \in 0 .. l /\ e + (j - 1) = e + j - 1
      BY <3>3, <3>4
    <3>7. Stands(history, e, s.entered[k])
      <4>1. e + l \in 0 .. LastCell /\ history[e + l] = Nul
        BY <3>2, <3>4, <3>5 DEF Stands, l
      <4>2. ASSUME NEW j \in 1 .. l
            PROVE  history[e + j - 1] = s.entered[k][j] /\ s.entered[k][j] # Nul
        BY <3>2, <3>5, <3>6 DEF Stands, l
      <4> QED
        BY <1>6, <4>1, <4>2 DEF Stands, l
    <3> QED
      BY <1>5, <1>8, <3>1, <3>7 DEF e
  <2> QED
    BY <2>1, <2>2
<1>10. ASSUME Fit(t), NEW i \in Entry(t.count) .. LastCell
       PROVE  t.history[i] = Nul
  <2>1. Fit(s) /\ Len(string) < HISTORY_SIZE
    BY <1>1, <1>5, <1>8, <1>10 DEF Fit
  <2>2. at + HISTORY_SIZE <= Entry(t.count) /\ Entry(t.count) \in Nat
    <3>1. s.count \in 0 .. HISTORY_SIZE /\ t.count \in 0 .. HISTORY_SIZE /\ s.count < t.count
      <4>1. s.count \in 0 .. HISTORY_SIZE - 1 /\ t.count = s.count + 1
        BY <1>1, <1>5
      <4> QED
        BY <1>2, <4>1
    <3> QED
      BY <3>1, SizesOfHistory DEF at
  <2>3. i \in 0 .. LastCell /\ i > at + Len(string) /\ i \in at .. LastCell
    BY <1>2, <1>3, <1>4, <2>1, <2>2
  <2> QED
    BY <1>1, <1>5, <1>6, <2>1, <2>3 DEF at
<1>11. Edited(t)
  BY <1>1, <1>2, <1>5 DEF Edited
<1>12. Kept(t)
  <2>1. t.count \in 0 .. HISTORY_SIZE
    BY <1>1, <1>2, <1>5
  <2>2. t.history \in [0 .. LastCell -> Cell] /\ t.history[LastCell] = Nul
    BY <1>5, <1>6, <1>7
  <2> QED
    BY <1>8, <1>9, <1>10, <2>1, <2>2 DEF Kept
<1>13. Alike(s, t)
  BY <1>1, <1>5, <1>8 DEF Alike, Fit
<1> QED
  BY <1>5, <1>11, <1>12, <1>13 DEF HistoryInv, t

\* The words of a line are cut by '\0's, wherever.
LEMMA CutInv ==
    ASSUME NEW s, HistoryInv(s), NEW cut
    PROVE  /\ HistoryInv([s EXCEPT !.cmd = [i \in DOMAIN @ |-> IF i \in cut THEN Nul ELSE @[i]]])
           /\ Alike(s, [s EXCEPT !.cmd = [i \in DOMAIN @ |-> IF i \in cut THEN Nul ELSE @[i]]])
<1> DEFINE t == [s EXCEPT !.cmd = [i \in DOMAIN @ |-> IF i \in cut THEN Nul ELSE @[i]]]
           cmd == [i \in DOMAIN s.cmd |-> IF i \in cut THEN Nul ELSE s.cmd[i]]
<1>1. s.cmd \in [0 .. MAX_LINE_LENGTH -> Cell] /\ Nul \in Cell
  BY DEF HistoryInv, Edited, Cell
<1>2. t = [s EXCEPT !.cmd = cmd]
  OBVIOUS
<1> HIDE DEF t
<1>3. cmd \in [0 .. MAX_LINE_LENGTH -> Cell]
  BY <1>1
<1> HIDE DEF cmd
<1>4. /\ DOMAIN t = Fields /\ t.cmd = cmd /\ t.index = s.index /\ t.cursor = s.cursor
      /\ t.scroll = s.scroll /\ t.count = s.count /\ t.history = s.history
      /\ t.entered = s.entered /\ t.strayed = s.strayed /\ t.undefined = s.undefined
  BY <1>2 DEF HistoryInv, Fields
<1>5. Edited(t)
  BY <1>3, <1>4 DEF HistoryInv, Edited
<1>6. HistoryInv(t) /\ Alike(s, t)
  BY <1>4, <1>5, StaysKept DEF Alike, Fit
<1> QED
  BY <1>6 DEF t

LEMMA TokenisedInv ==
    ASSUME NEW s, HistoryInv(s)
    PROVE  HistoryInv(Tokenised(s)) /\ Alike(s, Tokenised(s))
BY CutInv, Zenon DEF Tokenised

\* Enter, up to the next prompt, wherever the command has gone.
LEMMA EnteredInv ==
    ASSUME LineInv(sh)
    PROVE  /\ LineInv(Entered)
           /\ LineInv([Entered EXCEPT !.exited = TRUE])
           /\ \A cwd \in Paths : LineInv([Entered EXCEPT !.cwd = cwd])
<1> DEFINE e == Ended(sh)
           r == Remembered(e)
           s == Tokenised(r)
           t == Entered
<1>1. HistoryInv(r) /\ Alike(e, r) /\ Alike(sh, e)
  <2>1. /\ HistoryInv(e) /\ Alike(sh, e)
        /\ \E i \in 0 .. MAX_LINE_LENGTH : e.cmd[i] = Nul
    BY EndedInv DEF LineInv
  <2>2. r = e \/ (e.count < HISTORY_SIZE /\ r = Remember(e))
    <3>1. e.count \in 0 .. HISTORY_SIZE /\ HISTORY_SIZE \in Nat
      BY <2>1, SizesOfHistory DEF HistoryInv, Kept
    <3> HIDE DEF e
    <3>2. e.count >= HISTORY_SIZE \/ e.count < HISTORY_SIZE
      BY <3>1
    <3> QED
      BY <3>2, Zenon DEF Remembered
  <2> HIDE DEF e, r
  <2>3. CASE r = e
    BY <2>1, <2>3 DEF Alike
  <2>4. CASE e.count < HISTORY_SIZE /\ r = Remember(e)
    BY <2>1, <2>4, RememberedInv
  <2> QED
    BY <2>2, <2>3, <2>4
<1>2. HistoryInv(s) /\ Alike(r, s)
  BY <1>1, TokenisedInv
<1>3. t = NextLine(s, sh.cwd)
  BY DEF Entered
<1> HIDE DEF e, r, s, t
<1>4. /\ DOMAIN t = Fields /\ t.cmd = s.cmd /\ t.index = 0 /\ t.cursor = 0 /\ t.scroll = 0
      /\ t.count = s.count /\ t.history = s.history /\ t.entered = s.entered
      /\ t.strayed = s.strayed /\ t.undefined = s.undefined
  BY <1>2, <1>3 DEF HistoryInv, Fields, NextLine
<1>5. Edited(t)
  <2>1. s.count \in Nat /\ MAX_LINE_LENGTH \in Nat
    BY <1>2, SizesOfHistory DEF HistoryInv, Kept
  <2> QED
    BY <1>2, <1>4, <2>1 DEF HistoryInv, Edited
<1>6. HistoryInv(t) /\ InOrder(t)
  <2>1. HistoryInv(t)
    BY <1>2, <1>4, <1>5, StaysKept
  <2>2. t.strayed = sh.strayed /\ t.undefined = sh.undefined /\ (Fit(t) => Fit(sh))
    <3>1. Fit(t) => Fit(s)
      BY <1>4 DEF Fit
    <3> QED
      BY <1>1, <1>2, <1>4, <3>1 DEF Alike
  <2>3. t.cursor \in 0 .. t.index
    BY <1>4
  <2>4. InOrder(t)
    BY <2>2, <2>3, Zenon DEF LineInv, InOrder
  <2> QED
    BY <2>1, <2>4
<1>7. ASSUME NEW u, \/ u = [t EXCEPT !.exited = TRUE]
                    \/ \E cwd \in Paths : u = [t EXCEPT !.cwd = cwd]
      PROVE  LineInv(u)
  <2>1. /\ DOMAIN u = Fields /\ u.cmd = t.cmd /\ u.index = t.index /\ u.cursor = t.cursor
        /\ u.scroll = t.scroll /\ u.count = t.count /\ u.history = t.history
        /\ u.entered = t.entered /\ u.strayed = t.strayed /\ u.undefined = t.undefined
    BY <1>4, <1>7 DEF Fields
  <2>2. HistoryInv(u)
    BY <1>5, <1>6, <2>1, StaysKept DEF Edited
  <2>3. Fit(u) => Fit(t)
    BY <2>1 DEF Fit
  <2>4. InOrder(u)
    BY <1>6, <2>1, <2>3, Zenon DEF InOrder
  <2> QED
    BY <2>2, <2>4 DEF LineInv
<1> QED
  BY <1>6, <1>7 DEF LineInv, t

-----------------------------------------------------------------------------
(* The steps.                                                              *)

\* A changed line that leaves the history as it was, before it is shown.
Changed(t) ==
    /\ DOMAIN t = Fields /\ t.count = sh.count /\ t.history = sh.history /\ t.entered = sh.entered
    /\ Edited(t) /\ Sane(t)

LEMMA ShownLine ==
    ASSUME NEW s, HistoryInv(s), Sane(s)
    PROVE  LineInv(Shown(s))
BY ShownInv, ShownInOrder DEF LineInv, HistoryInv

LEMMA ChangedInv ==
    ASSUME LineInv(sh), NEW t, Changed(t), sh' = Shown(t)
    PROVE  LineInv(sh)'
<1>1. HistoryInv(t) /\ Sane(t)
  BY StaysKept DEF Changed, LineInv
<1> QED
  BY <1>1, ShownLine

\* A full line, the arrows along the line, backspace.
LEMMA MoveInv ==
    ASSUME LineInv(sh),
           FullLine \/ LeftArrow \/ RightArrow \/ Backspace
    PROVE  LineInv(sh)'
<1>1. /\ DOMAIN sh = Fields /\ Edited(sh) /\ InOrder(sh)
      /\ sh.index \in 0 .. MAX_LINE_LENGTH /\ sh.cursor \in Int /\ MAX_LINE_LENGTH \in Nat
  <2>1. MAX_LINE_LENGTH \in Nat
    BY SizesOfHistory
  <2> QED
    BY <2>1 DEF LineInv, HistoryInv, Edited
<1>2. PICK t : /\ sh' = Shown(t)
               /\ \/ t = sh
                  \/ t = [sh EXCEPT !.astray = TRUE]
                  \/ sh.cursor # 0 /\ t = [sh EXCEPT !.cursor = @ - 1]
                  \/ sh.cursor \in 0 .. sh.index - 1 /\ t = [sh EXCEPT !.cursor = @ + 1]
                  \/ /\ sh.index # 0
                     /\ t = [sh EXCEPT !.index = @ - 1, !.cursor = @ - 1,
                                       !.astray = @ \/ sh.cursor # sh.index]
  <2>1. CASE FullLine
    BY <2>1 DEF FullLine, Step
  <2>2. CASE LeftArrow
    BY <2>2 DEF LeftArrow, Step
  <2>3. CASE RightArrow
    BY <2>3 DEF RightArrow, Step
  <2>4. CASE Backspace
    BY <2>4 DEF Backspace, Step
  <2> QED
    BY <2>1, <2>2, <2>3, <2>4
<1>3. ASSUME t = sh PROVE Changed(t)
  BY <1>1, <1>3 DEF Changed, Sane
<1>4. ASSUME t = [sh EXCEPT !.astray = TRUE] PROVE Changed(t)
  BY <1>1, <1>4 DEF Changed, Edited, Fields, Sane
<1>5. ASSUME \/ sh.cursor # 0 /\ t = [sh EXCEPT !.cursor = @ - 1]
             \/ sh.cursor \in 0 .. sh.index - 1 /\ t = [sh EXCEPT !.cursor = @ + 1]
      PROVE  Changed(t)
  <2>1. /\ DOMAIN t = Fields /\ t.cmd = sh.cmd /\ t.index = sh.index /\ t.cursor \in Int
        /\ t.scroll = sh.scroll /\ t.count = sh.count /\ t.history = sh.history
        /\ t.entered = sh.entered /\ t.strayed = sh.strayed /\ t.undefined = sh.undefined
    BY <1>1, <1>5 DEF Fields
  <2>2. sh.cursor \in 0 .. sh.index => t.cursor \in 0 .. t.index
    BY <1>1, <1>5 DEF Fields
  <2>3. Fit(t) => Fit(sh)
    BY <2>1 DEF Fit
  <2>4. Sane(t)
    BY <1>1, <2>1, <2>2, <2>3, Zenon DEF Sane, InOrder
  <2> QED
    BY <1>1, <2>1, <2>4 DEF Changed, Edited
<1>6. ASSUME sh.index # 0,
             t = [sh EXCEPT !.index = @ - 1, !.cursor = @ - 1, !.astray = @ \/ sh.cursor # sh.index]
      PROVE  Changed(t)
  <2>1. /\ DOMAIN t = Fields /\ t.cmd = sh.cmd /\ t.index = sh.index - 1 /\ t.cursor = sh.cursor - 1
        /\ t.scroll = sh.scroll /\ t.count = sh.count /\ t.history = sh.history
        /\ t.entered = sh.entered /\ t.strayed = sh.strayed /\ t.undefined = sh.undefined
    BY <1>1, <1>6 DEF Fields
  <2>2. t.astray \/ t.cursor \in 0 .. t.index
    <3>1. t.astray \/ sh.cursor = sh.index
      BY <1>1, <1>6 DEF Fields
    <3> QED
      BY <1>1, <1>6, <2>1, <3>1
  <2>3. Fit(t) => Fit(sh)
    BY <2>1 DEF Fit
  <2>4. Sane(t)
    BY <1>1, <2>1, <2>2, <2>3, Zenon DEF Sane, InOrder
  <2>5. Edited(t)
    BY <1>1, <1>6, <2>1 DEF Edited
  <2> QED
    BY <1>1, <2>1, <2>4, <2>5 DEF Changed
<1> QED
  BY <1>2, <1>3, <1>4, <1>5, <1>6, ChangedInv

\* Up and down the history.
LEMMA ArrowInv ==
    ASSUME LineInv(sh), UpArrow \/ DownArrow
    PROVE  LineInv(sh)'
<1>1. /\ DOMAIN sh = Fields /\ Edited(sh) /\ HistoryInv(sh) /\ InOrder(sh) /\ Sane(sh)
      /\ sh.count \in Nat /\ sh.scroll \in 0 .. sh.count /\ MAX_LINE_LENGTH \in Nat
  <2>1. HistoryInv(sh) /\ InOrder(sh)
    BY DEF LineInv
  <2>2. sh.count \in 0 .. HISTORY_SIZE
    BY <2>1 DEF HistoryInv, Kept
  <2>3. MAX_LINE_LENGTH \in Nat
    BY SizesOfHistory
  <2> QED
    BY <2>1, <2>2, <2>3 DEF HistoryInv, Edited, Sane
<1>2. ASSUME NEW scroll \in 0 .. sh.count, RecallOf(scroll) PROVE LineInv(sh)'
  <2> DEFINE t == Recall(sh, scroll, Recalled(sh, sh.count - scroll))
  <2>1. HistoryInv(t) /\ Sane(t)
    BY <1>1, RecallInv DEF Sane
  <2>2. sh' = Shown(t)
    BY <1>2 DEF RecallOf, Step
  <2> HIDE DEF t
  <2> QED
    BY <2>1, <2>2, ShownLine
<1>3. CASE UpArrow
  <2>1. CASE sh.scroll = sh.count
    BY <1>1, <1>3, <2>1, ShownLine DEF UpArrow, Step
  <2>2. CASE sh.scroll # sh.count
    <3>1. sh.scroll + 1 \in 0 .. sh.count
      BY <1>1, <2>2
    <3> QED
      BY <1>2, <1>3, <2>2, <3>1 DEF UpArrow
  <2> QED
    BY <2>1, <2>2
<1>4. CASE DownArrow
  <2>1. CASE sh.scroll = 0
    <3> DEFINE t == [sh EXCEPT !.index = 0, !.cursor = 0, !.astray = @ \/ sh.cursor # sh.index]
    <3>1. sh' = Shown(t)
      BY <1>4, <2>1 DEF DownArrow, Step
    <3>2. /\ DOMAIN t = Fields /\ t.cmd = sh.cmd /\ t.index = 0 /\ t.cursor = 0
          /\ t.scroll = sh.scroll /\ t.count = sh.count /\ t.history = sh.history
          /\ t.entered = sh.entered /\ t.strayed = sh.strayed /\ t.undefined = sh.undefined
      BY <1>1 DEF Fields
    <3> HIDE DEF t
    <3>3. t.cursor \in 0 .. t.index /\ (Fit(t) => Fit(sh))
      BY <3>2 DEF Fit
    <3>4. Sane(t)
      BY <1>1, <3>2, <3>3, Zenon DEF Sane, InOrder
    <3>5. Edited(t)
      BY <1>1, <3>2 DEF Edited
    <3>6. Changed(t)
      BY <3>2, <3>4, <3>5 DEF Changed
    <3> QED
      BY <3>1, <3>6, ChangedInv
  <2>2. CASE sh.scroll # 0
    <3>1. sh.scroll - 1 \in 0 .. sh.count
      BY <1>1, <2>2
    <3> QED
      BY <1>2, <1>4, <2>2, <3>1 DEF DownArrow
  <2> QED
    BY <2>1, <2>2
<1> QED
  BY <1>3, <1>4

\* A letter at the end of the line, or in its middle, which is astray.
LEMMA TypeLetterInv ==
    ASSUME LineInv(sh), TypeLetter
    PROVE  LineInv(sh)'
<1>1. /\ DOMAIN sh = Fields /\ Edited(sh) /\ HistoryInv(sh) /\ InOrder(sh) /\ sh.count \in Nat
      /\ sh.cmd \in [0 .. MAX_LINE_LENGTH -> Cell]
  <2>1. HistoryInv(sh) /\ InOrder(sh)
    BY DEF LineInv
  <2>2. sh.count \in 0 .. HISTORY_SIZE
    BY <2>1 DEF HistoryInv, Kept
  <2> QED
    BY <2>1, <2>2 DEF HistoryInv, Edited
<1>2. sh.index \in 0 .. MAX_LINE_LENGTH /\ sh.index + 1 \in 0 .. MAX_LINE_LENGTH /\ sh.cursor \in Int
  <2>1. MAX_LINE_LENGTH \in Nat
    BY SizesOfHistory
  <2>2. sh.index < MAX_LINE_LENGTH
    BY DEF TypeLetter, Editing
  <2>3. sh.index \in 0 .. MAX_LINE_LENGTH /\ sh.cursor \in Int
    BY <1>1 DEF Edited
  <2> QED
    BY <2>1, <2>2, <2>3
<1>3. PICK c \in Letters :
         IF sh.cursor = sh.index THEN sh' = Shown(Appended(sh, c))
         ELSE \/ sh' = Shown(PutIn(sh, c))
              \/ sh' = Shown(Undefined(PutIn(sh, c)))
  BY DEF TypeLetter, Step
<1>4. c \in Cell
  BY DEF Cell
<1>5. CASE sh.cursor = sh.index
  <2> DEFINE t == Appended(sh, c)
  <2>1. /\ DOMAIN t = Fields /\ t.cmd = [sh.cmd EXCEPT ![sh.index] = c] /\ t.index = sh.index + 1
        /\ t.cursor = sh.cursor + 1 /\ t.scroll = 0 /\ t.count = sh.count
        /\ t.history = sh.history /\ t.entered = sh.entered
        /\ t.strayed = sh.strayed /\ t.undefined = sh.undefined
    BY <1>1 DEF Fields, Appended
  <2> HIDE DEF t
  <2>2. t.cmd \in [0 .. MAX_LINE_LENGTH -> Cell]
    BY <1>1, <1>4, <2>1
  <2>3. Edited(t)
    BY <1>1, <1>2, <2>1, <2>2 DEF Edited
  <2>4. t.cursor \in 0 .. t.index /\ (Fit(t) => Fit(sh))
    BY <1>2, <1>5, <2>1 DEF Fit
  <2>5. Sane(t)
    BY <1>1, <2>1, <2>4, Zenon DEF Sane, InOrder
  <2>6. Changed(t)
    BY <2>1, <2>3, <2>5 DEF Changed
  <2> QED
    BY <1>3, <1>5, <2>6, ChangedInv DEF t
<1>6. CASE sh.cursor # sh.index
  <2> DEFINE t == PutIn(sh, c)
  <2>1. HistoryInv(t) /\ Sane(t) /\ HistoryInv(Undefined(t)) /\ Sane(Undefined(t))
    <3>1. CASE sh.cursor < 0
      <4>1. t = Undefined(sh)
        BY <3>1 DEF PutIn
      <4> HIDE DEF t
      <4>2. HistoryInv(t) /\ HistoryInv(Undefined(t))
        BY <1>1, <4>1, ShownInv
      <4>3. sh.strayed
        BY <1>1, <1>2, <3>1 DEF InOrder
      <4>4. t.strayed /\ Undefined(t).strayed
        BY <1>1, <4>1, <4>3 DEF Undefined, Fields
      <4> QED
        BY <4>2, <4>4 DEF Sane, InOrder
    <3>2. CASE ~ sh.cursor < 0
      <4> DEFINE cmd == [i \in DOMAIN sh.cmd |-> IF i = sh.cursor THEN c
                                                 ELSE IF i \in sh.cursor + 2 .. sh.index + 1
                                                 THEN sh.cmd[i - 1] ELSE sh.cmd[i]]
      <4>1. t = [sh EXCEPT !.cmd = cmd, !.index = @ + 1, !.cursor = @ + 1, !.scroll = 0,
                           !.astray = TRUE]
        BY <3>2 DEF PutIn
      <4>2. cmd \in [0 .. MAX_LINE_LENGTH -> Cell]
        <5>1. ASSUME NEW i \in 0 .. MAX_LINE_LENGTH, i \in sh.cursor + 2 .. sh.index + 1
              PROVE  i - 1 \in 0 .. MAX_LINE_LENGTH
          <6>1. MAX_LINE_LENGTH \in Nat
            BY SizesOfHistory
          <6> QED
            BY <1>2, <3>2, <5>1, <6>1
        <5> QED
          BY <1>1, <1>4, <5>1
      <4> HIDE DEF t, cmd
      <4>3. /\ DOMAIN t = Fields /\ t.cmd = cmd /\ t.index = sh.index + 1 /\ t.cursor = sh.cursor + 1
            /\ t.scroll = 0 /\ t.count = sh.count /\ t.history = sh.history
            /\ t.entered = sh.entered /\ t.astray
        BY <1>1, <4>1 DEF Fields
      <4>4. Edited(t)
        BY <1>1, <1>2, <4>2, <4>3 DEF Edited
      <4>5. HistoryInv(t) /\ HistoryInv(Undefined(t))
        BY <1>1, <4>3, <4>4, StaysKept, ShownInv
      <4>6. Undefined(t).astray
        BY <4>3 DEF Undefined, Fields
      <4> QED
        BY <4>3, <4>5, <4>6 DEF Sane
    <3> QED
      BY <3>1, <3>2
  <2> HIDE DEF t
  <2>2. sh' = Shown(t) \/ sh' = Shown(Undefined(t))
    BY <1>3, <1>6 DEF t
  <2> QED
    BY <2>1, <2>2, ShownLine
<1> QED
  BY <1>5, <1>6

\* Enter, whatever the line is.
LEMMA EnterInv ==
    ASSUME LineInv(sh),
           \/ EnterNothing \/ CmdExit \/ CmdClear \/ CmdCd \/ CmdExport \/ ExecArgs
    PROVE  LineInv(sh)'
<1>1. \/ sh' = Shown(Entered)
      \/ sh' = [Entered EXCEPT !.exited = TRUE]
      \/ \E cwd \in Paths : sh' = Shown([Entered EXCEPT !.cwd = cwd])
  <2>1. CASE EnterNothing
    BY <2>1 DEF EnterNothing, Prompts
  <2>2. CASE CmdExit
    BY <2>2 DEF CmdExit, Prompts
  <2>3. CASE CmdClear
    BY <2>3 DEF CmdClear, Prompts
  <2>4. CASE CmdCd
    BY <2>4 DEF CmdCd, Prompts
  <2>5. CASE CmdExport
    BY <2>5 DEF CmdExport, Prompts
  <2>6. CASE ExecArgs
    BY <2>6 DEF ExecArgs, Prompts
  <2> QED
    BY <2>1, <2>2, <2>3, <2>4, <2>5, <2>6
<1>2. \A s : LineInv(s) => LineInv(Shown(s))
  BY ShownLine DEF LineInv, Sane
<1> QED
  BY <1>1, <1>2, EnteredInv

LEMMA LineInit ==
    ASSUME ShellInit
    PROVE  LineInv(sh)
<1>1. MAX_LINE_LENGTH \in Nat /\ HISTORY_SIZE \in Nat /\ LastCell \in Nat /\ Nul \in Cell
  BY SizesOfHistory DEF Cell
<1>2. /\ DOMAIN sh = Fields /\ sh.cmd = [i \in 0 .. MAX_LINE_LENGTH |-> Nul]
      /\ sh.index = 0 /\ sh.cursor = 0 /\ sh.scroll = 0 /\ sh.count = 0
      /\ sh.history = [i \in 0 .. LastCell |-> Nul] /\ sh.entered = <<>>
      /\ ~ sh.undefined
  BY DEF ShellInit, Fields, LastCell
<1>3. Edited(sh)
  BY <1>1, <1>2 DEF Edited
<1>4. Kept(sh)
  <2>1. Entry(sh.count) \in 0 .. LastCell
    BY <1>1, <1>2, SizesOfHistory
  <2>2. \A i \in Entry(sh.count) .. LastCell : sh.history[i] = Nul
    BY <1>1, <1>2, <2>1
  <2> QED
    BY <1>1, <1>2, <2>2 DEF Kept
<1>5. InOrder(sh)
  BY <1>2 DEF InOrder
<1> QED
  BY <1>2, <1>3, <1>4, <1>5 DEF LineInv, HistoryInv

LEMMA LineStep ==
    ASSUME LineInv(sh), [ShellNext]_shellVars
    PROVE  LineInv(sh)'
<1>1. CASE FullLine \/ LeftArrow \/ RightArrow \/ Backspace
  BY <1>1, MoveInv
<1>2. CASE UpArrow \/ DownArrow
  BY <1>2, ArrowInv
<1>3. CASE TypeLetter
  BY <1>3, TypeLetterInv
<1>4. CASE \/ EnterNothing \/ CmdExit \/ CmdClear \/ CmdCd \/ CmdExport \/ ExecArgs
  BY <1>4, EnterInv
<1>5. CASE Stopped \/ UNCHANGED shellVars
  BY <1>5 DEF Stopped, shellVars
<1> QED
  BY <1>1, <1>2, <1>3, <1>4, <1>5 DEF ShellNext

\* The invariant is what the property says, for the strings in memory.
LEMMA InvRecalls ==
    ASSUME LineInv(sh)
    PROVE  HistoryRecalls
<1> SUFFICES ASSUME EntriesFit, NEW k \in DOMAIN sh.entered
             PROVE  Recalled(sh, k - 1) = sh.entered[k]
  BY DEF HistoryRecalls
<1>1. /\ sh.count \in 0 .. HISTORY_SIZE /\ sh.history \in [0 .. LastCell -> Cell]
      /\ sh.entered \in Seq(Seq(Cell)) /\ DOMAIN sh.entered = 1 .. sh.count
  BY DEF LineInv, HistoryInv, Kept
<1>2. HISTORY_SIZE \in Nat /\ LastCell \in Nat /\ Entry(k - 1) \in Nat
  BY <1>1, SizesOfHistory
<1>3. Stands(sh.history, Entry(k - 1), sh.entered[k])
  BY <1>1 DEF LineInv, HistoryInv, Kept, Fit, EntriesFit
<1>4. sh.entered[k] \in Seq(Cell)
  BY <1>1
<1> QED
  BY <1>1, <1>2, <1>3, <1>4, StandsIs DEF Recalled

-----------------------------------------------------------------------------
(* The theorems about the shell.                                           *)

\* Lines, history and cursor keep their relations, whatever is typed and run
\* (shell.c:170-330).
THEOREM LineInvariant == ShellSpec => []LineInv(sh)
<1>1. ShellInit => LineInv(sh)
  BY LineInit
<1>2. LineInv(sh) /\ [ShellNext]_shellVars => LineInv(sh)'
  BY LineStep
<1> QED
  BY <1>1, <1>2, PTL DEF ShellSpec

\* Every line that was entered can be recalled as it was, as long as each is
\* shorter than an entry: an entry begins behind the end of the one before
\* (shell.c:218-259, 304-312).
THEOREM HistoryAlwaysRecalled == ShellSpec => []HistoryRecalls
<1>1. LineInv(sh) => HistoryRecalls
  BY InvRecalls
<1>2. ShellSpec => []LineInv(sh)
  BY LineInvariant
<1> QED
  BY <1>1, <1>2, PTL

\* Until the user strays, the cursor stays on the line, and a recalled line is
\* one that was entered or, below the newest, nothing, so that it fits in cmd.
THEOREM EditsAlwaysInBounds == ShellSpec => []EditsInBounds
<1>1. LineInv(sh) => EditsInBounds
  <2> SUFFICES ASSUME LineInv(sh) PROVE EditsInBounds
    OBVIOUS
  <2>1. EntriesFit => Fit(sh)
    BY DEF LineInv, HistoryInv, Kept, Fit, EntriesFit
  <2> QED
    BY <2>1, Zenon DEF LineInv, InOrder, EditsInBounds
<1>2. ShellSpec => []LineInv(sh)
  BY LineInvariant
<1> QED
  BY <1>1, <1>2, PTL
=============================================================================
