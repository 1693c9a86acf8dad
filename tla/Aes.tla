--------------------------------- MODULE Aes ---------------------------------
(***************************************************************************)
(* pkg/encrypt/aes.go: GoAES objects of one key, whose settings may change *)
(* between calls and which keep the iv they have made or found.            *)
(*                                                                         *)
(* A ciphertext is described by how it was made (head: the iv is put       *)
(* before it; given: its maker had been given the iv, a history).  Whoever *)
(* reads it any other way gets Garble, which stands for wrong bytes, an    *)
(* empty string or a panic in pkcs5UnPadding.                              *)
(***************************************************************************)
EXTENDS Naturals, FiniteSets

CONSTANTS
    Objects,    \* GoAES values made by NewGoAES with one key
    Plain,      \* plaintexts, of a block at least
    Ivs,        \* ivs given to WithIv
    Encodings,  \* encoders; Base64 is one of them
    Base64,
    Chained,    \* the modes with an iv, CBC and CTR, which the code treats alike
    Unset,      \* a nil iv, encoder or model
    Garble,
    MaxTexts    \* bound: ciphertexts made

\* What a program gives: a mode is told from none, as is an encoder.
ConstantsOK ==
    /\ Base64 \in Encodings /\ Unset \notin Encodings \cup Chained \cup {"ECB"}
    /\ "ECB" \notin Chained /\ MaxTexts \in Nat

Model == {"ECB"} \cup Chained

\* Ivs drawn by blockIvEncrypt: told apart by the text they were drawn for.
Drawn == {<<"drawn", n>> : n \in 1..MaxTexts}

VARIABLES
    obj,     \* the objects
    chained, \* history: objects that have made or read a chained text without WithIv
    texts,   \* ciphertexts made so far
    got      \* the Decrypt just made: with which settings, of what, and the answer

vars == <<obj, chained, texts, got>>

Object == [model : Model \cup {Unset}, iv : Ivs \cup Drawn \cup {Unset, Garble},
           setIv : BOOLEAN, encoder : Encodings \cup {Unset}]

TypeOK ==
    /\ obj \in [Objects -> Object]
    /\ chained \subseteq Objects
    /\ texts \subseteq [plain : Plain, model : Model, iv : Ivs \cup Drawn \cup {Unset, Garble},
                        head : BOOLEAN, given : BOOLEAN, encoder : Encodings]
    /\ got = Unset \/ got.text \in texts

Init ==
    /\ obj = [o \in Objects |-> [model |-> Unset, iv |-> Unset, setIv |-> FALSE, encoder |-> Unset]]
    /\ chained = {} /\ texts = {} /\ got = Unset

-----------------------------------------------------------------------------
(* Settings.                                                               *)

WithModel(o, m) ==
    /\ obj' = [obj EXCEPT ![o].model = m]
    /\ got' = Unset
    /\ UNCHANGED <<chained, texts>>

\* Bound: an object's encoder is chosen before its first call.
WithEncoding(o, e) ==
    /\ obj[o].encoder = Unset
    /\ obj' = [obj EXCEPT ![o].encoder = e]
    /\ got' = Unset
    /\ UNCHANGED <<chained, texts>>

WithIv(o, iv) ==
    /\ obj' = [obj EXCEPT ![o].iv = iv, ![o].setIv = TRUE]
    /\ got' = Unset
    /\ UNCHANGED <<chained, texts>>

\* initConfig: what is unset becomes ECB and Base64, for good.
Configured(a) ==
    [a EXCEPT !.model = IF @ = Unset THEN "ECB" ELSE @,
              !.encoder = IF @ = Unset THEN Base64 ELSE @]

-----------------------------------------------------------------------------
(* Encrypt.                                                                *)

\* blockIvEncrypt: an object without iv draws one and keeps it.
BlockIvEncrypt(a) ==
    IF a.model \in Chained /\ a.iv = Unset
    THEN [a EXCEPT !.iv = <<"drawn", Cardinality(texts) + 1>>] ELSE a

\* Mutant of Text: the iv is not put before the ciphertext.
TextBare(a, p) ==
    [plain |-> p, model |-> a.model, iv |-> IF a.model = "ECB" THEN Unset ELSE a.iv,
     head |-> FALSE, given |-> a.setIv, encoder |-> a.encoder]

Text(a, p) ==
    [plain |-> p, model |-> a.model, iv |-> IF a.model = "ECB" THEN Unset ELSE a.iv,
     head |-> a.model \in Chained /\ ~a.setIv, given |-> a.setIv,
     encoder |-> a.encoder]

Touched(o, a) ==
    chained' = IF a.model \in Chained /\ ~a.setIv THEN chained \cup {o} ELSE chained

Encrypt(o, p) ==
    LET a == BlockIvEncrypt(Configured(obj[o])) IN
    /\ Cardinality(texts) < MaxTexts
    /\ obj' = [obj EXCEPT ![o] = a]
    /\ texts' = texts \cup {Text(a, p)}
    /\ Touched(o, a)
    /\ got' = Unset

-----------------------------------------------------------------------------
(* Decrypt.                                                                *)

\* The iv at the head is cut off, and kept, by an object that has none; one
\* that has any takes the head for text.
BlockIvDecrypt(a, t) ==
    IF a.model \in Chained /\ ~a.setIv /\ a.iv = Unset
    THEN [a EXCEPT !.iv = IF t.head THEN t.iv ELSE Garble] ELSE a

\* Does the object, as it is before the call, cut a head that is there, or leave
\* a text that has none alone and know its iv?
Opens(a, t) ==
    /\ a.model = t.model
    /\ \/ a.model = "ECB"
       \/ t.head /\ ~a.setIv /\ a.iv = Unset
       \/ ~t.head /\ a.iv = t.iv

Read(o, a, t, decoded) ==
    /\ obj' = [obj EXCEPT ![o] = IF decoded THEN BlockIvDecrypt(a, t) ELSE a]
    /\ got' = [by |-> a, used |-> o \in chained, text |-> t,
               answer |-> IF decoded /\ Opens(a, t) THEN t.plain ELSE Garble]
    /\ IF decoded THEN Touched(o, a) ELSE UNCHANGED chained
    /\ UNCHANGED texts

\* A text in another encoding is an error or decodes to something else.
Decrypt(o, t) ==
    /\ t \in texts
    /\ LET a == Configured(obj[o]) IN Read(o, a, t, a.encoder = t.encoder)

\* DecryptBytes of the decoded text: initConfig is not called, and an object
\* that has no model answers "".
DecryptBytes(o, t) ==
    /\ t \in texts
    /\ Read(o, obj[o], t, TRUE)

-----------------------------------------------------------------------------
Next == \E o \in Objects :
    \/ \E m \in Model : WithModel(o, m)
    \/ \E e \in Encodings : WithEncoding(o, e)
    \/ \E iv \in Ivs : WithIv(o, iv)
    \/ \E p \in Plain : Encrypt(o, p)
    \/ \E t \in texts : Decrypt(o, t) \/ DecryptBytes(o, t)

Spec == Init /\ [][Next]_vars

-----------------------------------------------------------------------------
(* Properties.                                                             *)

\* Who reads a text with the mode it was made with gets the plaintext back if
\* the mode is ECB, or both sides gave the iv, or the reader neither gave one
\* nor has made or read a chained text before.  An object that has is lost for
\* texts of the other kind: the settings alone do not decide.
ReadsBack ==
    got # Unset =>
        LET a == got.by
            t == got.text
        IN  (/\ a.model = t.model /\ a.encoder = t.encoder
             /\ \/ a.model = "ECB"
                \/ a.setIv /\ t.given /\ a.iv = t.iv
                \/ ~a.setIv /\ ~t.given /\ ~got.used)
            => got.answer = t.plain
=============================================================================
