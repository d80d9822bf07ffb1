--------------------------- MODULE MCFileTransfer ---------------------------
(* FileTransfer with files of up to three chunks of two bytes, the last one  *)
(* full or not.  All bytes of a file differ, so that a byte that is lost,    *)
(* repeated or misplaced shows.                                             *)
EXTENDS FileTransfer

MCFiles == {<<>>, <<1>>, <<1, 2>>, <<1, 2, 3>>, <<1, 2, 3, 4, 5>>, <<6, 7, 8, 9, 10, 11>>}
=============================================================================
