------------------------------ MODULE MCCodec -------------------------------
EXTENDS Codec

CONSTANT Characters, Longest

MCfnv1a(fmt) == Len(fmt)

\* Keys with a character that is not supported, and with too many numbers.
Odd == {<<1, 1, 17>>, <<1, 10, 1, 10, 1, 10>>}

\* All short keys, and the longest ones that start with the digit 1 and have no 0.
Keys ==
  UNION {[1 .. n -> Characters] : n \in 1 .. Longest - 1}
    \cup {k \in [1 .. Longest -> Characters \ {0}] : k[1] = 1}

\* Any key beside two that have the same number and different formats: z11 and 11z.
MCWorkload == {{k, <<16, 1, 1>>, <<1, 1, 16>>} : k \in Odd \cup Keys}
=============================================================================
