---------------------------- MODULE MCAsyncLink ----------------------------
(***************************************************************************)
(* AsyncLink on small instances.  DataBits = 1 gives bytes of one bit, on  *)
(* frames of 4 bits; the code's frames are of 11.                          *)
(***************************************************************************)
EXTENDS AsyncLink

(* One-bit bytes: a message of one byte and one of two. *)
ShortMessages == {<< <<1>> >>, << <<0>>, <<1>> >>}

(* #C9, least significant bit first: the byte the repository's own tests   *)
(* clock out.                                                              *)
C9 == <<1, 0, 0, 1, 0, 0, 1, 1>>
OneC9 == {<<C9>>}
TwoC9 == {<<C9, C9>>}
=============================================================================
