------------------------------ MODULE AesEncrypt ------------------------------
(***************************************************************************)
(* The cipher of a frame (encrypt/aes_encrypt.cpp), on sequences of bytes: *)
(* a shift by key and position under a fresh session key, which goes along *)
(* under the master key, all of it in Base64.                              *)
(***************************************************************************)
EXTENDS Bytes, FiniteSetsExt

CONSTANTS
    KEY_LENGTH,     \* bytes of a session key
    master_key_

\* The constructor never leaves the master key empty.
ASSUME KeyAssumption == KEY_LENGTH \in Nat \ {0} /\ master_key_ \in Seq(Byte) \ {<<>>}

-----------------------------------------------------------------------------
(* Base64.  A character is its index in BASE64_CHARS; any other is Pad or,  *)
(* through base64_map, an unsigned char of -1.                              *)

Pad == 64
Invalid == 255

\* The byte at position i (from 0), or the '\0' that fills up the last group.
At(s, i, fill) == IF i < Len(s) THEN s[i + 1] ELSE fill

\* The character at position j (from 0) of the encoding of s.
Sextet(s, j) ==
    LET g  == 3 * (j \div 4)
        b0 == At(s, g, 0)
        b1 == At(s, g + 1, 0)
        b2 == At(s, g + 2, 0)
    IN  IF g + (j % 4) > Len(s) THEN Pad
        ELSE <<b0 \div 4, (b0 % 4) * 16 + b1 \div 16, (b1 % 16) * 4 + b2 \div 64, b2 % 64>>[(j % 4) + 1]

Base64Encode(s) == [n \in 1 .. 4 * ((Len(s) + 2) \div 3) |-> Sextet(s, n - 1)]

\* The byte at position i (from 0) of what the characters c stand for.
Octet(c, i) ==
    LET g  == 4 * (i \div 3)
        v0 == At(c, g, Invalid)
        v1 == At(c, g + 1, Invalid)
        v2 == At(c, g + 2, Invalid)
        v3 == At(c, g + 3, Invalid)
    IN  <<v0 * 4 + ((v1 \div 16) % 4), (v1 % 16) * 16 + ((v2 \div 4) % 16), (v2 % 4) * 64 + v3>>[(i % 3) + 1] % 256

\* The characters before the first '='.
Unpadded(s) ==
    LET pads == {n \in 1 .. Len(s) : s[n] = Pad}
    IN  IF pads = {} THEN s ELSE SubSeq(s, 1, Min(pads) - 1)

\* An incomplete group of r characters gives r - 1 bytes.
Base64Decode(s) ==
    LET c == Unpadded(s)
        r == Len(c) % 4
    IN  [n \in 1 .. 3 * (Len(c) \div 4) + (IF r = 0 THEN 0 ELSE r - 1) |-> Octet(c, n - 1)]

-----------------------------------------------------------------------------
(* The shift *)

KeyAt(key, i) == key[(i % Len(key)) + 1]

ShiftEncrypt(s, key) ==
    [n \in 1 .. Len(s) |-> (s[n] + KeyAt(key, n - 1) + ((n - 1) % 256)) % 256]

ShiftDecrypt(s, key) ==
    [n \in 1 .. Len(s) |-> (s[n] - KeyAt(key, n - 1) - ((n - 1) % 256) + 512) % 256]

-----------------------------------------------------------------------------

\* session_key is the result of GenerateRandomBytes(KEY_LENGTH).
Encrypt(data, session_key) ==
    IF data = <<>> THEN Failed
    ELSE Base64Encode(ShiftEncrypt(session_key, master_key_) \o ShiftEncrypt(data, session_key))

Decrypt(encrypted_data) ==
    LET decoded == Base64Decode(encrypted_data)
        session_key == ShiftDecrypt(SubSeq(decoded, 1, KEY_LENGTH), master_key_)
    IN  IF Len(decoded) <= KEY_LENGTH THEN Failed
        ELSE ShiftDecrypt(SubSeq(decoded, KEY_LENGTH + 1, Len(decoded)), session_key)

=============================================================================
