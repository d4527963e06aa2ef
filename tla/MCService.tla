------------------------------ MODULE MCService ------------------------------
(* Instances of Service for TLC: up to three files of every kind that an upload
   or a read treats differently. *)
EXTENDS Service

Credit == [size |-> 1, format |-> "pdf", pages |-> 2]
Bundle == [size |-> 2, format |-> "pdf", pages |-> 3]
Scan == [size |-> 3, format |-> "image", pages |-> 1]
Letter == [size |-> 1, format |-> "other", pages |-> 1]
Poster == [size |-> 4, format |-> "image", pages |-> 1]
Blank == [size |-> 1, format |-> "pdf", pages |-> 0]
Nothing == [size |-> 0, format |-> "other", pages |-> 0]

AllKinds == {Credit, Bundle, Scan, Letter, Poster, Blank, Nothing}
=============================================================================
