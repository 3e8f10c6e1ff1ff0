------------------------------ MODULE Content ------------------------------
(***************************************************************************)
(* The overviews of one newsgroup as content.c keeps them in memory and in *)
(* the group's overview file.                                              *)
(*                                                                         *)
(* An overview file is a function from article numbers to message-IDs; no  *)
(* file is the function with the empty domain, because Cont_write unlinks  *)
(* a file without lines and Cont_read takes both for the same thing.  The  *)
(* cached content is a record: "arts" holds the non-NULL elements of       *)
(* cont.elem, first and last are cont.first and cont.last.  A slot number  *)
(* is vecFirst + index and vecFirst + size is always last + 1.             *)
(***************************************************************************)
EXTENDS Integers, Sequences, FiniteSetsExt

CONSTANT GenInfo  \* message-ID of the "General info" pseudo article

NoFile == [n \in {} |-> GenInfo]

\* The static variable cont before any group has been read.
NoContent(name) == [name |-> name, first |-> 1, last |-> 0, arts |-> NoFile]

\* Cont_read as it would be without the check against groupinfo at its end.
ReadWithoutGrpLast(name, file, grpLast) ==
    IF DOMAIN file = {}
      THEN [name |-> name, first |-> grpLast + 1, last |-> grpLast,
            arts |-> NoFile]
      ELSE [name |-> name, first |-> Min(DOMAIN file),
            last |-> Max(DOMAIN file), arts |-> file]

\* Cont_read as it would be if an empty group were numbered from 1 again.
ReadEmptyFromOne(name, file, grpLast) ==
    IF DOMAIN file = {}
      THEN NoContent(name)
      ELSE [name |-> name, first |-> Min(DOMAIN file),
            last |-> Max(DOMAIN file \cup {grpLast}), arts |-> file]

\* Slots up to the number that groupinfo knows as the group's last one are
\* added, so that the number of a cancelled article is not given out again.
Cont_read(name, file, grpLast) ==
    IF DOMAIN file = {}
      THEN [name |-> name, first |-> grpLast + 1, last |-> grpLast,
            arts |-> NoFile]
      ELSE [name |-> name, first |-> Min(DOMAIN file),
            last |-> Max(DOMAIN file \cup {grpLast}), arts |-> file]

\* Cont_app for each message-ID of the sequence.
Cont_app(c, ids) ==
    [c EXCEPT !.last = c.last + Len(ids),
              !.arts = [n \in DOMAIN c.arts
                              \cup (c.last + 1) .. (c.last + Len(ids)) |->
                            IF n \in DOMAIN c.arts
                              THEN c.arts[n]
                              ELSE ids[n - c.last]]]

Cont_validNumb(c, n) == /\ n # 0
                        /\ n \in c.first .. c.last
                        /\ n \in DOMAIN c.arts

\* Cont_delete with its index off by one.
DeleteNext(c, nums) ==
    [c EXCEPT !.arts = [n \in {k \in DOMAIN c.arts : k - 1 \notin nums} |->
                            c.arts[n]]]

\* Cont_delete for each number of the set.
Cont_delete(c, nums) ==
    [c EXCEPT !.arts = [n \in {k \in DOMAIN c.arts :
                                  ~(k \in nums /\ Cont_validNumb(c, k))} |->
                            c.arts[n]]]

\* The elements Cont_write saves: a general info only in front of an article.
Saved(c) == {n \in DOMAIN c.arts :
                c.arts[n] # GenInfo \/ n + 1 \in DOMAIN c.arts}

\* The overview file after Cont_write, and the content that stays in memory.
Cont_write(c)   == [n \in Saved(c) |-> c.arts[n]]
ContWritten(c) ==
    [c EXCEPT !.first = IF Saved(c) = {} THEN c.last + 1 ELSE Min(Saved(c))]
=============================================================================
