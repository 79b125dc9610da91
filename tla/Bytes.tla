-------------------------------- MODULE Bytes --------------------------------
(***************************************************************************)
(* Strings of bytes and the numbers in them, as the codecs share them.     *)
(***************************************************************************)
EXTENDS Integers, Sequences

CONSTANTS
    Failed,     \* in the place of the result of a call that has returned false
    Overread    \* and of one that has read past the end of its input

Byte == 0 .. 255

\* A bool result is apart from what is returned through the other parameters.
ASSUME FailureAssumption == {Failed, Overread} \cap (Int \cup Seq(Byte)) = {}

\* The four bytes of a uint32_t, in the order of the machine (least first).
Word(n) == <<n % 256, (n \div 256) % 256, (n \div 65536) % 256, (n \div 16777216) % 256>>

\* The uint32_t at position pos (from 0) of s.
WordAt(s, pos) ==
    s[pos + 1] + 256 * s[pos + 2] + 65536 * s[pos + 3] + 16777216 * s[pos + 4]

\* htonl() and ntohl(): the most significant byte first.
NetWord(n) == LET w == Word(n) IN <<w[4], w[3], w[2], w[1]>>
NetWordAt(s) == WordAt(<<s[4], s[3], s[2], s[1]>>, 0)

=============================================================================
