------------------------------- MODULE Base64 -------------------------------
(***************************************************************************)
(* base64_encode and base64_decode (base64.cpp) as operators.  A byte is a *)
(* number below 256; a character is written as its place in base64_chars,  *)
(* the padding and everything that is_base64 refuses as Pad and Other.     *)
(***************************************************************************)
EXTENDS Naturals, Sequences, SequencesExt

Byte == 0..255
Pad == 64
Other == 65
is_base64(c) == c < 64
----------------------------------------------------------------------------
(* base64_encode *)

\* Mutant: the low bits of the second byte are not shifted.
Char4Unshifted(a) ==
    << a[1] \div 4, (a[1] % 4) * 16 + a[2] \div 16, (a[2] % 16) + a[3] \div 64, a[3] % 64 >>

\* char_array_4 from char_array_3.
Char4(a) ==
    << a[1] \div 4, (a[1] % 4) * 16 + a[2] \div 16, (a[2] % 16) * 4 + a[3] \div 64, a[3] % 64 >>

\* One turn of the loop: a full char_array_3 is written out.
EncodeByte(s, byte) ==
    LET a == Append(s.a, byte)
    IN  IF Len(a) = 3 THEN [a |-> <<>>, ret |-> s.ret \o Char4(a)] ELSE [s EXCEPT !.a = a]

\* The loop after n turns.
EncodeTurns(bytes) ==
    LET turn[n \in 0..Len(bytes)] ==
            IF n = 0 THEN [a |-> <<>>, ret |-> <<>>] ELSE EncodeByte(turn[n - 1], bytes[n])
    IN  turn

\* What is left over is filled up with zeros, and the text with padding.
base64_encode(bytes) ==
    LET s == EncodeTurns(bytes)[Len(bytes)]
        i == Len(s.a)
    IN  IF i = 0 THEN s.ret
        ELSE s.ret \o SubSeq(Char4(s.a \o <<0, 0>>), 1, i + 1) \o SubSeq(<<Pad, Pad>>, 1, 3 - i)
----------------------------------------------------------------------------
(* base64_decode *)

\* char_array_3 from char_array_4, both of unsigned char.
Char3(a) ==
    << ((a[1] * 4) + (a[2] % 64) \div 16) % 256,
       ((a[2] % 16) * 16 + (a[3] % 64) \div 4) % 256,
       ((a[3] % 4) * 64 + a[4]) % 256 >>

DecodeChar(s, c) ==
    LET a == Append(s.a, c)
    IN  IF Len(a) = 4 THEN [a |-> <<>>, ret |-> s.ret \o Char3(a)] ELSE [s EXCEPT !.a = a]

DecodeTurns(read) ==
    LET turn[n \in 0..Len(read)] ==
            IF n = 0 THEN [a |-> <<>>, ret |-> <<>>] ELSE DecodeChar(turn[n - 1], read[n])
    IN  turn

\* The characters before the first that is none.
Read(text) ==
    LET stops == {k \in 1..Len(text) : ~is_base64(text[k])}
    IN  IF stops = {} THEN text ELSE SubSeq(text, 1, Min(stops) - 1)

\* junk is what the places of char_array_4 hold that the last turn has not written.
base64_decode(text, junk) ==
    LET s == DecodeTurns(Read(text))[Len(Read(text))]
        i == Len(s.a)
    IN  IF i = 0 THEN s.ret ELSE s.ret \o SubSeq(Char3(s.a \o <<junk, junk, junk>>), 1, i - 1)
----------------------------------------------------------------------------
\* Bit i of a sequence of numbers of w bits each, the first bit highest; zero
\* beyond its end.
Power == <<128, 64, 32, 16, 8, 4, 2, 1>>
Bit(s, w, i) ==
    IF i \div w < Len(s) THEN (s[i \div w + 1] \div Power[9 - w + (i % w)]) % 2 ELSE 0

\* base64_encode writes the bits of the bytes six by six and pads to groups of
\* four; base64_decode gives the bytes back, also from a text without its padding
\* or one that goes on behind it, whatever its unwritten array places hold.
Correct(text) ==
    LET code == base64_encode(text)
        size == (8 * Len(text) + 5) \div 6
        digits == SubSeq(code, 1, size)
    IN  /\ Len(code) = 4 * ((Len(text) + 2) \div 3)
        /\ \A k \in 1..Len(code) : IF k <= size THEN is_base64(code[k]) ELSE code[k] = Pad
        /\ \A i \in 0..(6 * size - 1) : Bit(digits, 6, i) = Bit(text, 8, i)
        /\ \A junk \in {0, 255} : \A rest \in {<<>>, <<Other, 7>>} :
              /\ base64_decode(code \o rest, junk) = text
              /\ base64_decode(digits \o rest, junk) = text
============================================================================
