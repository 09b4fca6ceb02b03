---------------------------- MODULE MCEncryptor ----------------------------
(* Blocks of two bytes: texts of no, half a, one and a half and two blocks.   *)
(* The polynomial x^16 + x^5 + x^3 + x^2 + 1 makes the blocks a field.        *)
EXTENDS Encryptor

KeySum(k) == LET sum[n \in 0 .. Len(k)] == IF n = 0 THEN 0 ELSE sum[n - 1] + k[n]
               IN  sum[Len(k)]
MCCipher(k, block) == (20077 * block + 12345 * KeySum(k) + 6977) % 65536
Times(a, b) == (a * (b % 256) + ((a * (b \div 256)) % 256) * 256) % 65536
MCDecipher(k, block) == Times(60261, (block - 12345 * KeySum(k) - 6977) % 65536)

MCTexts == {<<>>, <<7>>, <<104, 0, 255>>, <<0, 0, 200, 61>>}
MCIvs == {<<77>>, <<1, 2, 3>>}
MCAcc == <<9, 8, 7>>
=============================================================================
