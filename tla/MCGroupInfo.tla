---------------------------- MODULE MCGroupInfo ----------------------------
(* GroupInfo with one reader and two names, of which the remote server     *)
(* lists one; the other is that of a group of the hunt.                    *)
EXTENDS GroupInfo

CONSTANTS s1, l, r

MCReaders  == {s1}
MCNames    == {l, r}
MCKnown    == {r}
MCRemotes  == <<"news">>
MCLocal    == "(local)"
=============================================================================
