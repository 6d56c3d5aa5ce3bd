----------------------------- MODULE MCCompress -----------------------------
EXTENDS CompressService, TLC

CONSTANTS w1, w2, p

(* Texts that give no zero byte when compressed, in two writes or in three,  *)
(* one that does, and an empty file.                                         *)
Text == <<72, 105>>
Letter == <<97>>
LongText == <<72, 105, 44, 32>>

MCContents == {Text, Letter, << >>, LongText}
TwoContents == {Letter, LongText}
OneLetter == {Letter}
MCStale == {<<9, 8, 7, 6, 5, 4, 3, 2, 1>>}
Twice == <<p, p>>
Thrice == <<p, p, p>>
=============================================================================
