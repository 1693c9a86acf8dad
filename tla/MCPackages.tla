------------------------------ MODULE MCPackages -----------------------------
(***************************************************************************)
(* The packages beside the scheduler and the request core.  They share     *)
(* nothing: a behaviour belongs to one of them, whose module it follows,   *)
(* or evaluates a pure function of one of them on one of its inputs.       *)
(***************************************************************************)
EXTENDS Integers, Sequences, FiniteSets, SequencesExt, TLC

CONSTANTS
    Objects, Plain, Ivs, Encodings, Base64, Chained, Unset, Garble, MaxTexts,   \* Aes
    MaxSpans, MaxDepth,                                                         \* OtelPlugin
    Callers, Closers, MaxSignals,                                               \* Lifecycle
    Second, ExpireDuration, RefreshDuration, MaxCalls, MaxTime,                 \* Login
    MaxId, RootId,                                                              \* DecisionTree
    KeyBits, Bytes, MaxBytes, Failed,                                           \* Rsa
    PageNumbers, Chars, Sorts, Allowed, MaxOptions                              \* Page, Logger

MCIvs == {<<"given", 1>>}
MCPageNumbers == -1..3
\* Names of up to four characters, a suffix, a sign or a space anywhere.
MCSorts == {<<v>> : v \in SeqOf(Chars \ {"b"}, 4)}
           \cup (SeqOf({"a", "-", " "}, 2) \X SeqOf({"b", "+"}, 2))
MCAllowed == {{<<"a">>}, {<<"a">>, <<"b">>}, {<<"a", "-", "a">>}, {<<"a", "+", "a">>, <<" ">>}, {}}
\* Keys of 96..104 bits stand for the real ones: 1 or 2 bytes to a chunk.
MCKeyBits == 86..104

VARIABLES
    part, input,
    obj, chained, texts, got,                                             \* Aes
    stack, spans, lost,                                                   \* OtelPlugin
    system, now, entry, black, loginPc, issued, signedAt, cancelled, overlap,
    revived, good,                                                        \* Login
    parent, exec, root, added, roots, treePc, queue, size, pos, level,
    printed, entered, visited, barred,                                    \* DecisionTree
    once, made, ej, at, result, hook, signals, sent, called, killed       \* Lifecycle

A == INSTANCE Aes
O == INSTANCE OtelPlugin
L == INSTANCE Lifecycle
C == INSTANCE Login WITH pc <- loginPc
T == INSTANCE DecisionTree WITH pc <- treePc, i <- pos
P == INSTANCE Page
R == INSTANCE Rsa
G == INSTANCE Logger

\* What the modules ask of their constants, each for itself.
ASSUME PackagesAssumption ==
    /\ A!ConstantsOK /\ O!ConstantsOK /\ L!ConstantsOK /\ C!ConstantsOK /\ T!ConstantsOK
    /\ PageNumbers \subseteq Int /\ MaxOptions \in Nat
    /\ {"+", "-"} \subseteq Chars
    /\ Sorts \subseteq Seq(Seq(Chars)) /\ Allowed \subseteq SUBSET Seq(Chars)
    /\ KeyBits \subseteq Nat /\ MaxBytes \in Nat /\ Failed \notin Seq(Bytes)

aesVars == <<obj, chained, texts, got>>
otelVars == <<stack, spans, lost>>
lifeVars == <<once, made, ej, at, result, hook, signals, sent, called, killed>>
loginVars == <<system, now, entry, black, loginPc, issued, signedAt, cancelled,
               overlap, revived, good>>
treeVars == <<parent, exec, root, added, roots, treePc, queue, size, pos, level,
              printed, entered, visited, barred>>
vars == <<part, input, aesVars, otelVars, lifeVars, loginVars, treeVars>>

-----------------------------------------------------------------------------
(* Inputs of the pure functions.                                           *)

Data == SeqOf(Bytes, MaxBytes)

Input ==
    \/ \E s \in Sorts, a \in Allowed : input = [part |-> "sort", by |-> s, allowed |-> a]
    \/ \E i \in PageNumbers, n \in PageNumbers : input = [part |-> "page", index |-> i, size |-> n]
    \/ \E b \in KeyBits, d \in Data : input = [part |-> "rsa", bits |-> b, data |-> d]
    \/ \E os \in SeqOf(G!Options, MaxOptions), lvl \in DOMAIN G!Levels :
          input = [part |-> "log", opts |-> os, lvl |-> lvl]

\* A part that is not looked at stays in an initial state of its own, the same
\* in every behaviour.
Init ==
    /\ part \in {"aes", "otel", "life", "login", "tree", "pure"}
    /\ IF part = "pure" THEN Input ELSE input = [part |-> "none"]
    /\ A!Init /\ O!Init /\ L!Init /\ C!Init /\ T!Init
    /\ part # "login" => system = "refresh"
    /\ part # "tree" => exec = {} /\ \A n \in DOMAIN parent : parent[n] = 0

Next ==
    /\ UNCHANGED <<part, input>>
    /\ \/ part = "aes" /\ A!Next /\ UNCHANGED <<otelVars, lifeVars, loginVars, treeVars>>
       \/ part = "otel" /\ O!Next /\ UNCHANGED <<aesVars, lifeVars, loginVars, treeVars>>
       \/ part = "life" /\ L!Next /\ UNCHANGED <<aesVars, otelVars, loginVars, treeVars>>
       \/ part = "login" /\ C!Next /\ UNCHANGED <<aesVars, otelVars, lifeVars, treeVars>>
       \/ part = "tree" /\ T!Next /\ UNCHANGED <<aesVars, otelVars, lifeVars, loginVars>>

FairSpec == Init /\ [][Next]_vars /\ (part = "life" => L!Fair) /\ (part = "tree" => T!Fair)

-----------------------------------------------------------------------------
(* Properties.                                                             *)

\* The variables of the five state machines keep their ranges.
TypeOK == A!TypeOK /\ O!TypeOK /\ L!TypeOK /\ C!TypeOK /\ T!TypeOK

\* See Aes: a text is read back by whoever has the settings it needs.
ReadsBack == A!ReadsBack

\* See OtelPlugin: every operation ends the span it began, and no span ends
\* before one below it.
SpansNest == O!SpansNest

\* See Lifecycle: one job, and whom Get fails.
OneInstance == L!OneInstance

\* See Lifecycle: a signal leads to the functions given to Close.
ClosesDown == L!ClosesDown

\* See Login: only a login, or a refresh already under way, undoes a cancellation.
CancelSticks == C!CancelSticks

\* See Login: whoever was told of a login or refresh can refresh.
LoginLasts == C!LoginLasts

\* See Login: a cancelled access token is refused, but for its last second.
RefusedToTheEnd == C!RefusedToTheEnd

\* See DecisionTree: the root's children are the nodes nobody names.
RootsAreParentless == T!RootsAreParentless

\* See DecisionTree: a decision stays below nodes that said yes.
OnlyBelowEntered == T!OnlyBelowEntered

\* See DecisionTree: PrintTree answers the levels.
PrintsTheLevels == T!PrintsTheLevels

\* See DecisionTree: a decision and the printing of a whole tree come to an end.
CallsEnd == T!CallsEnd

\* A field name as programs have them: a suffix can be told from it.
Named(f) == f # <<>> /\ Head(f) # P!Space /\ Last(f) \notin {P!Space, "+", "-"}

\* Of what a client sends as "sort", only allowed fields reach the ORDER BY.  A
\* plain allowed name goes in with the direction its suffix asks for; one with a
\* sign inside it cannot be asked for with that sign at all, since the sign is
\* removed with the suffix.
SortAllowed ==
    (part = "pure" /\ input.part = "sort") =>
        LET out == P!Sort(input.by, input.allowed)
            Signed(f, sign, desc) ==
                input.by = <<Append(f, sign)>> =>
                    IF sign \in ToSet(f) THEN \A j \in DOMAIN out : out[j].field # f
                    ELSE out = <<[field |-> f, desc |-> desc]>>
        IN  /\ \A j \in DOMAIN out :
                  \E f \in input.allowed : P!TrimSpace(out[j].field) = P!TrimSpace(f)
            /\ \A f \in {g \in input.allowed : Named(g)} :
                  /\ input.by = <<f>> => out = <<[field |-> f, desc |-> FALSE]>>
                  /\ Signed(f, "+", FALSE)
                  /\ Signed(f, "-", TRUE)

\* The page with number i, asked for by a form; the JSON body that asks for it.
Form(i) == [index |-> i, size |-> input.size, sort |-> "id", rest |-> <<>>]
Body(i) == [valid |-> TRUE, index |-> i, size |-> input.size, sort |-> "id", rest |-> <<>>]
Page(i) == P!GetLimitAndOffset(P!NewPageFromRequest(Form(i)))

\* The pages of a list are its consecutive pieces, for whatever numbers but
\* negative ones, which nobody corrects: their offset or limit is negative.  A
\* form and a JSON body ask for the same page in the same way.
PagesTile ==
    (part = "pure" /\ input.part = "page") =>
        /\ P!NewPageFromRequestJSON(Body(input.index)) = P!NewPageFromRequest(Form(input.index))
        /\ Page(input.index).limit > 0 /\ input.index >= 1 =>
              Page(input.index + 1).offset = Page(input.index).offset + Page(input.index).limit
        /\ input.index \in {0, 1} => Page(input.index).offset = 0
        /\ (Page(input.index).offset < 0 \/ Page(input.index).limit < 0) <=>
              \/ input.size < 0
              \/ input.index < 0 /\ input.size >= 0

\* What is encrypted in chunks is decrypted in the same chunks, of any length
\* and none, when the key has a whole number of bytes; otherwise the parts fall
\* between the chunks, and decryption fails.
ChunksMeet ==
    (part = "pure" /\ input.part = "rsa") =>
        LET sent_ == R!PublicEncrypt(input.bits, input.data)
            whole == input.bits % 8 = 0 \/ input.data = <<>>
        IN  IF input.bits < 96 THEN sent_ = Failed
            ELSE R!PrivateDecrypt(input.bits, sent_) = IF whole THEN input.data ELSE Failed

\* An entry below the level goes nowhere.  One above goes to the console, errors
\* to stderr and the others to stdout, or, without the console, to the file of the
\* last file option and to no other.  Without a file option either it is written
\* nowhere, though the logger was made without an error: the call panics.
WrittenOnce ==
    (part = "pure" /\ input.part = "log") =>
        LET opts == input.opts
            opt == G!Applied(opts)
            lvl == G!Levels[input.lvl]
            out == G!Writers(opt, lvl)
            console == \A j \in DOMAIN opts : opts[j] # "disableConsole"
            IsFile(j) == opts[j] \in {"file", "rotation"}
            IsLastFile(j) == IsFile(j) /\ \A k \in DOMAIN opts : k > j => ~IsFile(k)
        IN  IF lvl < opt.level THEN out = {}
            ELSE /\ console => out = {IF input.lvl \in {"error", "dpanic", "panic", "fatal"}
                                      THEN "stderr" ELSE "stdout"}
                 /\ ~console => \A j \in DOMAIN opts : IsLastFile(j) => out = {opts[j]}
                 /\ G!Panics(opt, lvl) <=> ~console /\ \A j \in DOMAIN opts : ~IsFile(j)
=============================================================================
