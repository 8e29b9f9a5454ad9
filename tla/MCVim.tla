------------------------------- MODULE MCVim --------------------------------
(* Vim on four small texts; the tab is two columns wide. *)
EXTENDS Vim

x == "x"
Texts == {<<>>,
          <<<<x, Opening>>, <<Tab, x>>, <<>>, <<x, Closing>>, <<Quote, Opening>>, <<x>>>>,
          <<<<x, Tab, x, Opening, x>>, <<x>>>>,
          <<<<Quote, x, Closing, Quote, Opening>>, <<x>>>>}
=============================================================================
