--------------------------- MODULE MCFlashDriver ---------------------------
(* FlashDriver on a bank of two sectors of two flash words of two bytes.   *)
EXTENDS FlashDriver
============================================================================
