----------------------------- MODULE MCPahoTest -----------------------------
(* A small instance of PahoTest for TLC. *)
EXTENDS PahoTest

(* What others publish. *)
OtherTexts == {<<"b">>}

(* Input files of one line, without and with a bar, and one of two. *)
Files == {<<<<"a">>>>, <<<<"a", "|", "b">>>>, <<<<"a">>, <<"b">>>>}
=============================================================================
