------------------------- MODULE MCFragmentChannel -------------------------
(* Small instances of FragmentChannel for TLC. *)
EXTENDS FragmentChannel

\* Payloads of one, one, two and two AES blocks: two, two, three and three
\* fragments; the data of the third fills its blocks.
ShortFrames == <<33, 33, 49, 49>>
FullBlocks  == {3}
NoFrames    == {}
\* Two acknowledgements.
TwoReplies == <<33, 33>>

StrayPiece == [frame |-> 0, from |-> 0]
\* Headers that end early, a fragment that continues nothing, one that is too
\* long for what it declares, one that is a payload, one that promises a frame that
\* never comes, and the tail of a frame that was given up.
Strays ==
  {[index |-> 0, declared |-> 0, cut |-> c, size |-> 0, piece |-> StrayPiece] :
     c \in {"index", "length", "version"}}
  \cup {[index |-> i, declared |-> d, cut |-> "none", size |-> 2, piece |-> StrayPiece] :
          i \in 0 .. 2, d \in {1, 2, 50}}
  \cup {[index |-> 2, declared |-> 0, cut |-> "none", size |-> 13, piece |-> StrayPiece]}
NoStrays == {}
=============================================================================
