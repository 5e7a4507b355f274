--------------------------- MODULE MCStreamDecoder ---------------------------
(***************************************************************************)
(* Every stream of one to three pieces: frames short, of the limit and over *)
(* it, a malformed one, lone and split markers, and a preamble.            *)
(***************************************************************************)
EXTENDS StreamDecoder

Bytes == {"<", "e", "/", "x", "!"}

Open  == <<"<", "e">>
Close == <<"<", "/">>

Pieces ==
    { Open \o Close,
      Open \o <<"x">> \o Close,
      Open \o <<"x", "x">> \o Close,
      Open \o <<"!">> \o Close,
      Open, Close, <<"<">>, <<"x", "e">> }

SmallStreams ==
    {a \o b \o c : a \in Pieces, b \in Pieces \cup {<< >>}, c \in Pieces \cup {<< >>}}
===============================================================================
