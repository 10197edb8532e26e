------------------------------ MODULE MCNames ------------------------------
(***************************************************************************)
(* Names of at most two characters, one that fills its field and one that  *)
(* begins another, and every command of up to three characters, with some  *)
(* that have three words, or arguments after a name that is cut.  Of the   *)
(* slots past the entries one is empty and one still has the name of a     *)
(* file that was removed.                                                  *)
(***************************************************************************)
EXTENDS Names

MCnames == <<<<"a">>, <<"a", "b">>, <<"b">>, <<>>, <<"b", "b">>>>
MCCommands == UNION { [1 .. n -> {"a", "b", Space}] : n \in 0 .. 3 }
                \union { <<"a", Space>> \o c : c \in [1 .. 4 -> {"b", Space}] }
                \union { <<"a", "b", c, Space, "a">> : c \in {"a", "b", Space} }
MCFileNames == { c \in MCCommands : Len(c) <= 3 /\ Space \notin ToSet(c) }
=============================================================================
