----------------------------- MODULE MCSettings -----------------------------
(***************************************************************************)
(* Four names in two sections: one without a section, one with two dots in *)
(* a row, which is written as m.y.  A value of two words is cut, a blank   *)
(* one is lost.  Torn files make up the names with x, y and ? in them.     *)
(***************************************************************************)
EXTENDS Settings

FourNames == {<<"a", ".", "x">>, <<"m">>, <<"m", ".", "x">>, <<"m", ".", ".", "y">>}
AllNames == << <<"a", ".", "?">>, <<"a", ".", "x">>, <<"a", ".", "y">>, <<"m">>,
               <<"m", ".", ".", "y">>, <<"m", ".", "?">>, <<"m", ".", "x">>, <<"m", ".", "y">> >>
SomeValues == {"one", "two words", " "}
FirstWord == [v \in SomeValues |-> CASE v = "one" -> "one" [] v = "two words" -> "two"
                                     [] OTHER -> ""]
=============================================================================
