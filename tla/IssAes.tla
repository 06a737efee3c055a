------------------------------- MODULE IssAes --------------------------------
(***************************************************************************)
(* The AES instructions of the golden model (sim/tools/iss.py).  A 64-bit  *)
(* register is the sequence of its 8 bytes, byte 0 (the low one) first; a  *)
(* byte is a number below 256.  _AES_SBOX_FWD and _AES_SBOX_INV are the    *)
(* code's tables.                                                          *)
(***************************************************************************)
EXTENDS Integers, Sequences, Bitwise

_AES_SBOX_FWD ==
  <<99, 124, 119, 123, 242, 107, 111, 197, 48, 1, 103, 43, 254, 215, 171, 118,
    202, 130, 201, 125, 250, 89, 71, 240, 173, 212, 162, 175, 156, 164, 114, 192,
    183, 253, 147, 38, 54, 63, 247, 204, 52, 165, 229, 241, 113, 216, 49, 21,
    4, 199, 35, 195, 24, 150, 5, 154, 7, 18, 128, 226, 235, 39, 178, 117,
    9, 131, 44, 26, 27, 110, 90, 160, 82, 59, 214, 179, 41, 227, 47, 132,
    83, 209, 0, 237, 32, 252, 177, 91, 106, 203, 190, 57, 74, 76, 88, 207,
    208, 239, 170, 251, 67, 77, 51, 133, 69, 249, 2, 127, 80, 60, 159, 168,
    81, 163, 64, 143, 146, 157, 56, 245, 188, 182, 218, 33, 16, 255, 243, 210,
    205, 12, 19, 236, 95, 151, 68, 23, 196, 167, 126, 61, 100, 93, 25, 115,
    96, 129, 79, 220, 34, 42, 144, 136, 70, 238, 184, 20, 222, 94, 11, 219,
    224, 50, 58, 10, 73, 6, 36, 92, 194, 211, 172, 98, 145, 149, 228, 121,
    231, 200, 55, 109, 141, 213, 78, 169, 108, 86, 244, 234, 101, 122, 174, 8,
    186, 120, 37, 46, 28, 166, 180, 198, 232, 221, 116, 31, 75, 189, 139, 138,
    112, 62, 181, 102, 72, 3, 246, 14, 97, 53, 87, 185, 134, 193, 29, 158,
    225, 248, 152, 17, 105, 217, 142, 148, 155, 30, 135, 233, 206, 85, 40, 223,
    140, 161, 137, 13, 191, 230, 66, 104, 65, 153, 45, 15, 176, 84, 187, 22>>

_AES_SBOX_INV ==
  <<82, 9, 106, 213, 48, 54, 165, 56, 191, 64, 163, 158, 129, 243, 215, 251,
    124, 227, 57, 130, 155, 47, 255, 135, 52, 142, 67, 68, 196, 222, 233, 203,
    84, 123, 148, 50, 166, 194, 35, 61, 238, 76, 149, 11, 66, 250, 195, 78,
    8, 46, 161, 102, 40, 217, 36, 178, 118, 91, 162, 73, 109, 139, 209, 37,
    114, 248, 246, 100, 134, 104, 152, 22, 212, 164, 92, 204, 93, 101, 182, 146,
    108, 112, 72, 80, 253, 237, 185, 218, 94, 21, 70, 87, 167, 141, 157, 132,
    144, 216, 171, 0, 140, 188, 211, 10, 247, 228, 88, 5, 184, 179, 69, 6,
    208, 44, 30, 143, 202, 63, 15, 2, 193, 175, 189, 3, 1, 19, 138, 107,
    58, 145, 17, 65, 79, 103, 220, 234, 151, 242, 207, 206, 240, 180, 230, 115,
    150, 172, 116, 34, 231, 173, 53, 133, 226, 249, 55, 232, 28, 117, 223, 110,
    71, 241, 26, 113, 29, 41, 197, 137, 111, 183, 98, 14, 170, 24, 190, 27,
    252, 86, 62, 75, 198, 210, 121, 32, 154, 219, 192, 254, 120, 205, 90, 244,
    31, 221, 168, 51, 136, 7, 199, 49, 177, 18, 16, 89, 39, 128, 236, 95,
    96, 81, 127, 169, 25, 181, 74, 13, 45, 229, 122, 159, 147, 201, 156, 239,
    160, 224, 59, 77, 174, 42, 245, 176, 200, 235, 187, 60, 131, 83, 153, 97,
    23, 43, 4, 126, 186, 119, 214, 38, 225, 105, 20, 99, 85, 33, 12, 125>>

_AES_RCON == <<1, 2, 4, 8, 16, 32, 64, 128, 27, 54, 0, 0, 0, 0, 0, 0>>

Xor4(a, b, c, d) == (a ^^ b) ^^ (c ^^ d)
sbox(x) == _AES_SBOX_FWD[x + 1]
sbox_inv(x) == _AES_SBOX_INV[x + 1]

\* Multiplication by 2 and by a 4-bit y in the field of the cipher.
_aes_xt2(x) == IF x < 128 THEN 2 * x ELSE (2 * x - 256) ^^ 27
_aes_xt3(x) == x ^^ _aes_xt2(x)
_aes_gfmul(x, y) ==
  LET x2 == _aes_xt2(x)
      x4 == _aes_xt2(x2)
      x8 == _aes_xt2(x4)
      pick(bit, v) == IF (y \div 2^bit) % 2 = 1 THEN v ELSE 0
  IN Xor4(pick(0, x), pick(1, x2), pick(2, x4), pick(3, x8))

\* A column is 4 bytes; row r of the result reads the column from byte r on.
_aes_mixcolumn_fwd(s) ==
  [r \in 1 .. 4 |-> LET at(k) == s[((r - 1 + k) % 4) + 1] IN Xor4(_aes_xt2(at(0)), _aes_xt3(at(1)), at(2), at(3))]
_aes_mixcolumn_inv(s) ==
  [r \in 1 .. 4 |-> LET at(k) == s[((r - 1 + k) % 4) + 1]
                    IN Xor4(_aes_gfmul(at(0), 14), _aes_gfmul(at(1), 11), _aes_gfmul(at(2), 13), _aes_gfmul(at(3), 9))]

Lo(x) == SubSeq(x, 1, 4)
Hi(x) == SubSeq(x, 5, 8)
Each(x, f(_)) == [i \in DOMAIN x |-> f(x[i])]
_aes_subword_fwd(w) == Each(w, sbox)
_aes_sbox_bytes64(x, inv) == IF inv THEN Each(x, sbox_inv) ELSE Each(x, sbox)

_aes_getbyte(x, i) == x[i + 1]
_aes_shiftrows_fwd(rs2, rs1) ==
  LET g(x, i) == _aes_getbyte(x, i)
  IN <<g(rs1, 0), g(rs1, 5), g(rs2, 2), g(rs2, 7), g(rs1, 4), g(rs2, 1), g(rs2, 6), g(rs1, 3)>>
_aes_shiftrows_inv_as_fwd(rs2, rs1) == _aes_shiftrows_fwd(rs2, rs1)
_aes_shiftrows_inv(rs2, rs1) ==
  LET g(x, i) == _aes_getbyte(x, i)
  IN <<g(rs1, 0), g(rs2, 5), g(rs2, 2), g(rs1, 7), g(rs1, 4), g(rs1, 1), g(rs2, 6), g(rs2, 3)>>

aes64es(rs1, rs2) == _aes_sbox_bytes64(_aes_shiftrows_fwd(rs2, rs1), FALSE)
aes64esm(rs1, rs2) == LET sb == aes64es(rs1, rs2) IN _aes_mixcolumn_fwd(Lo(sb)) \o _aes_mixcolumn_fwd(Hi(sb))
aes64ds(rs1, rs2) == _aes_sbox_bytes64(_aes_shiftrows_inv(rs2, rs1), TRUE)
aes64dsm(rs1, rs2) == LET sb == aes64ds(rs1, rs2) IN _aes_mixcolumn_inv(Lo(sb)) \o _aes_mixcolumn_inv(Hi(sb))
aes64im(rs1) == _aes_mixcolumn_inv(Lo(rs1)) \o _aes_mixcolumn_inv(Hi(rs1))

XorWord(v, w) == [i \in DOMAIN v |-> v[i] ^^ w[i]]
aes64ks1i(rs1, rnum) ==
  LET tmp1 == Hi(rs1)
      tmp2 == IF rnum = 10 THEN tmp1 ELSE Tail(tmp1) \o <<Head(tmp1)>>       \* a word rotated right by a byte
      v == XorWord(_aes_subword_fwd(tmp2), <<_AES_RCON[rnum + 1], 0, 0, 0>>)
  IN v \o v
aes64ks2(rs1, rs2) ==
  LET w0 == XorWord(Hi(rs1), Lo(rs2))
      w1 == XorWord(w0, Hi(rs2))
  IN w0 \o w1
=============================================================================
