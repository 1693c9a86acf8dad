--------------------------------- MODULE Rsa ---------------------------------
(***************************************************************************)
(* pkg/encrypt/rsa.go: encryption by chunks.  A key of so many bits is all *)
(* that matters of it; a ciphertext is the sequence of its bytes, each of   *)
(* which knows the chunk it is made from.                                  *)
(***************************************************************************)
EXTENDS Integers, Sequences, SequencesExt

CONSTANTS Failed  \* an error, or a panic

Chunks(n, lim) == (n + lim - 1) \div lim

\* split; it ends only for lim > 0.
Split(buf, lim) ==
    [c \in 1..Chunks(Len(buf), lim) |->
        SubSeq(buf, (c - 1) * lim + 1, IF c * lim < Len(buf) THEN c * lim ELSE Len(buf))]

\* crypto/rsa: the modulus in bytes, and what one call makes of a chunk.
Size(bits) == (bits + 7) \div 8
EncryptPKCS1v15(bits, chunk) == [i \in 1..Size(bits) |-> <<chunk, i>>]
DecryptPKCS1v15(bits, text) ==
    IF Len(text) = Size(bits) /\ \A i \in DOMAIN text : text[i] = <<text[1][1], i>>
    THEN text[1][1] ELSE Failed

PublicEncrypt(bits, data) ==
    LET partLen == bits \div 8 - 11
        chunks == Split(data, partLen)
    IN  IF partLen <= 0 THEN Failed
        ELSE FlattenSeq([c \in DOMAIN chunks |-> EncryptPKCS1v15(bits, chunks[c])])

\* Mutant of PrivateDecrypt: the parts have the length of those encrypted.
PrivateDecryptShort(bits, text) ==
    LET chunks == Split(text, bits \div 8 - 11)
        parts == [c \in DOMAIN chunks |-> DecryptPKCS1v15(bits, chunks[c])]
    IN  IF \E c \in DOMAIN parts : parts[c] = Failed THEN Failed ELSE FlattenSeq(parts)

\* One part that cannot be decrypted makes the call fail.
PrivateDecrypt(bits, text) ==
    LET chunks == Split(text, bits \div 8)
        parts == [c \in DOMAIN chunks |-> DecryptPKCS1v15(bits, chunks[c])]
    IN  IF \E c \in DOMAIN parts : parts[c] = Failed THEN Failed ELSE FlattenSeq(parts)
=============================================================================
