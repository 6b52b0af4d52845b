----------------------------- MODULE MCDetValues -----------------------------
(* All files of one byte, and files of two bytes taken from the borders of  *)
(* carries, of interesting values and of the patterns of bits.              *)
EXTENDS DetValues

Border == {0, 1, 2, 3, 15, 16, 31, 32, 35, 64, 100, 126, 127, 128, 129, 132, 192,
           220, 221, 223, 224, 232, 240, 254, 255}
Triples == {<<80, 232, 3>>, <<80, 3, 232>>, <<1, 80, 0>>, <<232, 80, 232>>, <<255, 127, 0>>}
BytesAndWords == Triples \cup {<<b>> : b \in 0..255} \cup {<<a, b>> : a \in Border, b \in Border}
=============================================================================
