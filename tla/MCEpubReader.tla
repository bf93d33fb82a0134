----------------------------- MODULE MCEpubReader -----------------------------
(***************************************************************************)
(* EpubReader for TLC.  In both books the text starts at the chapter after *)
(* the first, which is a title page or a cover without any page of text.   *)
(***************************************************************************)
EXTENDS EpubReader

PageCounts(counts) == [c \in 0 .. Len(counts) - 1 |-> counts[c + 1]]

TitleAndTwo == PageCounts(<<1, 2>>)
CoverAndTwo == PageCounts(<<0, 2>>)

=============================================================================
