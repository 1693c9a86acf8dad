----------------------------- MODULE LoginProofs -----------------------------
(***************************************************************************)
(* Proofs about Login for any durations, any length of a second and any    *)
(* number of concurrent calls: what a cancellation and a login are worth.  *)
(***************************************************************************)
EXTENDS Login, TLAPS

-----------------------------------------------------------------------------
(* The refresh-token entry.                                                *)

RefreshType ==
    /\ entry \in Nat /\ good \in 0..RefreshDuration /\ revived \in BOOLEAN
    /\ pc \in [Call -> {"idle", "got", "deleted", "done"}]
    /\ overlap \in SUBSET Call

\* After a cancellation the entry is gone, and the only calls that could write it
\* again without starting anew are those that had read it before.
Cancelled ==
    ~revived => entry = 0 /\ \A c \in Call : pc[c] \in {"got", "deleted"} => c \in overlap

\* What was promised is there, or a refresh is between its Del and its Set.
Promised == good <= entry \/ \E c \in Call : pc[c] = "deleted"

RefreshInv == RefreshType /\ Cancelled /\ Promised

LEMMA InitRefresh == ASSUME ConstantsOK PROVE Init => RefreshInv
<1> SUFFICES ASSUME Init PROVE RefreshInv
  OBVIOUS
<1>1. RefreshType
  BY DEF Init, RefreshType, ConstantsOK
<1>2. Cancelled /\ Promised
  BY DEF Init, Cancelled, Promised
<1> QED
  BY <1>1, <1>2 DEF RefreshInv

LEMMA TickRefresh == ASSUME ConstantsOK, RefreshInv, Tick PROVE RefreshInv'
<1>1. entry' = Less(entry) /\ good' = Less(good) /\ entry \in Nat /\ good \in 0..RefreshDuration
      /\ UNCHANGED <<pc, overlap, revived>>
  BY DEF RefreshInv, RefreshType, Tick
<1>2. RefreshType'
  BY <1>1 DEF RefreshInv, RefreshType, Less, ConstantsOK
<1>3. Cancelled'
  BY <1>1 DEF RefreshInv, Cancelled, Less
<1>4. Promised'
  BY <1>1 DEF RefreshInv, Promised, Less
<1> QED
  BY <1>2, <1>3, <1>4 DEF RefreshInv

\* What SetEntry does, for a call that has not begun and for one that has.
LEMMA SetEntryDoes ==
    ASSUME ConstantsOK, RefreshInv, NEW c \in Call, SetEntry(c)
    PROVE  /\ entry' \in {entry, RefreshDuration}
           /\ \/ entry' = RefreshDuration /\ good' = RefreshDuration
              \/ good' = IF pc[c] = "idle" THEN good ELSE 0
           /\ entry' \in Nat /\ good' \in 0..RefreshDuration
  BY DEF ConstantsOK, RefreshInv, RefreshType, SetEntry

LEMMA GenerateRefresh ==
    ASSUME ConstantsOK, RefreshInv, NEW c \in Call, GenerateToken(c) PROVE RefreshInv'
<1>1. /\ pc[c] = "idle" /\ pc' = [pc EXCEPT ![c] = "done"] /\ overlap' = overlap
      /\ SetEntry(c)
  BY DEF GenerateToken, Goto
<1>2. /\ entry' \in {entry, RefreshDuration} /\ entry' \in Nat /\ good' \in 0..RefreshDuration
      /\ good' \in {good, RefreshDuration}
      /\ good' = good \/ entry' = RefreshDuration
  BY <1>1, SetEntryDoes
<1>3. revived' \in BOOLEAN /\ (~revived' => ~revived /\ entry' = entry)
  BY Zenon DEF GenerateToken
<1>4. RefreshType'
  BY <1>1, <1>2, <1>3 DEF RefreshInv, RefreshType
<1>5. Cancelled'
  BY <1>1, <1>3 DEF RefreshInv, RefreshType, Cancelled
<1>6. Promised'
  <2>1. ASSUME NEW d \in Call, pc[d] = "deleted" PROVE pc'[d] = "deleted"
    BY <1>1, <2>1 DEF RefreshInv, RefreshType
  <2>2. CASE good <= entry /\ good' = good /\ entry' = entry
    BY <2>2 DEF Promised
  <2>3. CASE good <= entry /\ good' = good /\ entry' = RefreshDuration
    BY <2>3 DEF ConstantsOK, RefreshInv, RefreshType, Promised
  <2> QED
    BY <1>2, <2>1, <2>2, <2>3 DEF RefreshInv, RefreshType, Promised
<1> QED
  BY <1>4, <1>5, <1>6 DEF RefreshInv

LEMMA CancelRefresh ==
    ASSUME ConstantsOK, RefreshInv, NEW c \in Call, TokenCancel(c) PROVE RefreshInv'
<1>1. /\ pc[c] = "idle" /\ pc' = [pc EXCEPT ![c] = "done"]
      /\ entry' \in {0, entry} /\ good' = 0
  BY DEF TokenCancel, Goto, Del
<1>2. \/ entry' = 0 /\ revived' = FALSE /\ overlap' = {d \in Call : pc[d] \in {"got", "deleted"}}
      \/ entry' = entry /\ revived' = revived /\ overlap' = overlap
  BY <1>1 DEF TokenCancel
<1>3. RefreshType'
  <2>1. revived' \in BOOLEAN
    BY <1>2, Zenon DEF RefreshInv, RefreshType
  <2>2. overlap' \in SUBSET Call
    BY <1>2 DEF RefreshInv, RefreshType
  <2> QED
    BY <1>1, <2>1, <2>2 DEF RefreshInv, RefreshType, ConstantsOK
<1>4. Cancelled'
  BY <1>1, <1>2 DEF RefreshInv, RefreshType, Cancelled
<1>5. Promised'
  BY <1>1, <1>3 DEF Promised, RefreshType
<1> QED
  BY <1>3, <1>4, <1>5 DEF RefreshInv

\* A refresh reads the entry, or fails: of a cancelled one there is none.
LEMMA GetRefresh ==
    ASSUME ConstantsOK, RefreshInv, NEW c \in Call, RefreshGet(c) PROVE RefreshInv'
<1>1. /\ UNCHANGED <<entry, overlap, revived, good>> /\ pc[c] = "idle"
      /\ \/ entry > 0 /\ pc' = [pc EXCEPT ![c] = "got"]
         \/ pc' = [pc EXCEPT ![c] = "done"]
  BY DEF RefreshGet, Goto, refreshVars
<1>2. RefreshType'
  BY <1>1 DEF RefreshInv, RefreshType
<1>3. Cancelled'
  BY <1>1 DEF RefreshInv, RefreshType, Cancelled
<1>4. Promised'
  BY <1>1 DEF RefreshInv, RefreshType, Promised
<1> QED
  BY <1>2, <1>3, <1>4 DEF RefreshInv

LEMMA DelRefresh ==
    ASSUME ConstantsOK, RefreshInv, NEW c \in Call, RefreshDel(c) PROVE RefreshInv'
<1>1. /\ UNCHANGED <<overlap, revived, good>> /\ pc[c] = "got"
      /\ pc' = [pc EXCEPT ![c] = "deleted"] /\ entry' \in {0, entry}
  BY DEF RefreshDel, Goto, Del
<1>2. RefreshType'
  BY <1>1 DEF RefreshInv, RefreshType
<1>3. Cancelled'
  BY <1>1 DEF RefreshInv, RefreshType, Cancelled
<1>4. Promised'
  <2>1. pc'[c] = "deleted"
    BY <1>1 DEF RefreshInv, RefreshType
  <2> QED
    BY <2>1 DEF Promised
<1> QED
  BY <1>2, <1>3, <1>4 DEF RefreshInv

LEMMA SetRefresh ==
    ASSUME ConstantsOK, RefreshInv, NEW c \in Call, RefreshSet(c) PROVE RefreshInv'
<1>1. /\ pc[c] = "deleted" /\ pc' = [pc EXCEPT ![c] = "done"] /\ overlap' = overlap
      /\ SetEntry(c)
  BY DEF RefreshSet, Goto
<1>2. /\ entry' \in {entry, RefreshDuration} /\ entry' \in Nat /\ good' \in 0..RefreshDuration
      /\ good' <= entry'
  BY <1>1, SetEntryDoes DEF ConstantsOK
<1>3. revived' \in BOOLEAN /\ (~revived' => ~revived /\ ~(c \in overlap /\ entry' > 0))
  BY Zenon DEF RefreshSet
<1>4. RefreshType'
  BY <1>1, <1>2, <1>3 DEF RefreshInv, RefreshType
<1>5. Cancelled'
  <2> SUFFICES ASSUME ~revived'
               PROVE  entry' = 0 /\ \A d \in Call : pc'[d] \in {"got", "deleted"} => d \in overlap'
    BY DEF Cancelled
  <2>1. c \in overlap /\ ~(entry' > 0)
    BY <1>1, <1>3 DEF RefreshInv, Cancelled
  <2> QED
    BY <1>1, <1>2, <1>3, <2>1 DEF RefreshInv, RefreshType, Cancelled
<1>6. Promised'
  BY <1>2 DEF Promised
<1> QED
  BY <1>4, <1>5, <1>6 DEF RefreshInv

\* The calls of the other system.
LEMMA BlackRefreshInv ==
    ASSUME ConstantsOK, RefreshInv, NEW c \in Call, BlackCall(c) PROVE RefreshInv'
<1>1. /\ UNCHANGED <<entry, overlap, revived, good>> /\ pc[c] = "idle"
      /\ pc' = [pc EXCEPT ![c] = "done"]
  BY DEF BlackCall, Goto, refreshVars
<1>2. RefreshType' /\ Cancelled'
  BY <1>1 DEF RefreshInv, RefreshType, Cancelled
<1>3. Promised'
  BY <1>1 DEF RefreshInv, RefreshType, Promised
<1> QED
  BY <1>2, <1>3 DEF RefreshInv

LEMMA NextRefresh == ASSUME ConstantsOK PROVE RefreshInv /\ [Next]_vars => RefreshInv'
<1> SUFFICES ASSUME RefreshInv, [Next]_vars PROVE RefreshInv'
  OBVIOUS
<1>1. ASSUME NEW c \in Call,
             BlackGenerate(c) \/ BlackRefresh(c) \/ BlackCancelById(c) \/ BlackCancel(c)
      PROVE  RefreshInv'
  BY <1>1, BlackRefreshInv
     DEF BlackGenerate, BlackRefresh, BlackCancelById, BlackCancel
<1>2. CASE UNCHANGED vars
  BY <1>2 DEF vars, RefreshInv, RefreshType, Cancelled, Promised
<1> QED
  BY <1>1, <1>2, TickRefresh, GenerateRefresh, CancelRefresh, GetRefresh, DelRefresh,
     SetRefresh DEF Next

\* Whatever calls of the user run at once and fail: a cancelled refresh token
\* works again only through a login or a refresh that had begun.
THEOREM CancellationSticks == ASSUME ConstantsOK PROVE Spec => []CancelSticks
<1>1. RefreshInv => CancelSticks
  BY DEF RefreshInv, Cancelled, CancelSticks
<1> QED
  BY InitRefresh, NextRefresh, <1>1, PTL DEF Spec

\* Whoever was told of a login or refresh can refresh for RefreshDuration, but
\* for the moment between the two requests of another refresh.
THEOREM LoginIsKept == ASSUME ConstantsOK PROVE Spec => []LoginLasts
<1>1. RefreshInv => LoginLasts
  BY DEF RefreshInv, RefreshType, Promised, LoginLasts
<1> QED
  BY InitRefresh, NextRefresh, <1>1, PTL DEF Spec

-----------------------------------------------------------------------------
(* The black list.                                                         *)

\* What is given out is what JwtSign made at signedAt.
Signed ==
    /\ DOMAIN issued = Call
    /\ \A c \in Call : \/ issued[c] = None
                       \/ issued[c] = JwtSign(TheUser, Secret, signedAt[c], ExpireDuration)

BlackType ==
    /\ now \in 0..MaxTime /\ black \in Nat
    /\ signedAt \in [Call -> 0..MaxTime] /\ cancelled \in [Call -> 0..Never]

\* The entry lasts for ExpireDuration from every cancellation made so far, and
\* covers all of them.
Listed ==
    \A c \in Call :
        cancelled[c] # Never => cancelled[c] <= now /\ cancelled[c] + ExpireDuration <= black + now

BlackInv == BlackType /\ Signed /\ Listed

LEMMA InitBlack == ASSUME ConstantsOK PROVE Init => BlackInv
<1> SUFFICES ASSUME Init PROVE BlackInv
  OBVIOUS
<1>1. BlackType
  BY DEF ConstantsOK, Init, BlackType, Never
<1>2. Signed
  BY DEF Init, Signed
<1>3. Listed
  BY DEF Init, Listed
<1> QED
  BY <1>1, <1>2, <1>3 DEF BlackInv

LEMMA TickBlack == ASSUME ConstantsOK, BlackInv, Tick PROVE BlackInv'
<1>1. /\ now' = now + 1 /\ now < MaxTime /\ black' = Less(black)
      /\ UNCHANGED <<issued, signedAt, cancelled>>
  BY DEF Tick
<1>2. BlackType' /\ black + now <= black' + now'
  BY <1>1 DEF ConstantsOK, BlackInv, BlackType, Less
<1>3. Signed'
  BY <1>1 DEF BlackInv, Signed
<1>4. Listed'
  BY <1>1, <1>2 DEF ConstantsOK, BlackInv, BlackType, Listed, Never
<1> QED
  BY <1>2, <1>3, <1>4 DEF BlackInv

\* A call gives out what it signs, or nothing; cancellations are left alone.
LEMMA SignBlack ==
    ASSUME ConstantsOK, BlackInv, NEW c \in Call, UNCHANGED <<now, black, cancelled>>,
           \/ Sign(c) /\ signedAt' = [signedAt EXCEPT ![c] = now]
           \/ UNCHANGED <<issued, signedAt>>
    PROVE  BlackInv'
<1>1. BlackType'
  BY DEF BlackInv, BlackType
<1>2. Listed'
  BY DEF BlackInv, Listed
<1>3. CASE Sign(c) /\ signedAt' = [signedAt EXCEPT ![c] = now]
  <2>1. /\ DOMAIN issued' = Call /\ signedAt'[c] = now
        /\ issued'[c] = JwtSign(TheUser, Secret, now, ExpireDuration)
        /\ \A d \in Call \ {c} : issued'[d] = issued[d] /\ signedAt'[d] = signedAt[d]
    BY <1>3 DEF BlackInv, BlackType, Signed, Sign
  <2>2. Signed'
    BY <2>1 DEF BlackInv, Signed, JwtSign
  <2> QED
    BY <1>1, <1>2, <2>2 DEF BlackInv
<1>4. CASE UNCHANGED <<issued, signedAt>>
  BY <1>1, <1>2, <1>4 DEF BlackInv, Signed, JwtSign
<1> QED
  BY <1>3, <1>4

LEMMA EnterBlack ==
    ASSUME ConstantsOK, BlackInv, UNCHANGED <<now, issued, signedAt>>,
           Enter \/ UNCHANGED <<black, cancelled>>
    PROVE  BlackInv'
<1>1. Signed'
  BY DEF BlackInv, Signed, JwtSign
<1>2. CASE Enter
  <2>1. /\ black' = ExpireDuration
        /\ \A c \in Call : cancelled'[c] \in {now, cancelled[c]}
    BY <1>2 DEF Enter
  <2>2. BlackType'
    <3>1. cancelled' \in [Call -> 0..Never]
      BY <1>2 DEF ConstantsOK, BlackInv, BlackType, Enter, Never
    <3> QED
      BY <2>1, <3>1 DEF ConstantsOK, BlackInv, BlackType
  <2>3. Listed'
    BY <2>1 DEF ConstantsOK, BlackInv, BlackType, Listed, Never
  <2> QED
    BY <1>1, <2>2, <2>3 DEF BlackInv
<1>3. CASE UNCHANGED <<black, cancelled>>
  BY <1>1, <1>3 DEF BlackInv, BlackType, Listed
<1> QED
  BY <1>2, <1>3

LEMMA NextBlack == ASSUME ConstantsOK PROVE BlackInv /\ [Next]_vars => BlackInv'
<1> SUFFICES ASSUME BlackInv, [Next]_vars PROVE BlackInv'
  OBVIOUS
<1>1. ASSUME NEW c \in Call, GenerateToken(c) \/ RefreshSet(c) PROVE BlackInv'
  <2>1. SetEntry(c) /\ UNCHANGED <<now, black, cancelled>>
    BY <1>1 DEF GenerateToken, RefreshSet
  <2> QED
    BY <2>1, SignBlack DEF SetEntry
<1>2. ASSUME NEW c \in Call, TokenCancel(c) \/ RefreshGet(c) \/ RefreshDel(c) PROVE BlackInv'
  BY <1>2, SignBlack DEF TokenCancel, RefreshGet, RefreshDel, blackVars
<1>3. ASSUME NEW c \in Call, BlackGenerate(c) \/ BlackRefresh(c) PROVE BlackInv'
  BY <1>3, SignBlack DEF BlackGenerate, BlackRefresh, BlackCall
<1>4. ASSUME NEW c \in Call, BlackCancelById(c) \/ BlackCancel(c) PROVE BlackInv'
  BY <1>4, EnterBlack DEF BlackCancelById, BlackCancel, BlackCall
<1>5. CASE UNCHANGED vars
  BY <1>5, EnterBlack DEF vars
<1> QED
  BY <1>1, <1>2, <1>3, <1>4, <1>5, TickBlack DEF Next

\* A time whose second is not after that of t is less than a second after t.
LEMMA SameSecond ==
    ASSUME ConstantsOK, NEW s \in Nat, NEW t \in Nat, Unix(s) <= Unix(t)
    PROVE  s < t + Second
<1> DEFINE p == s \div Second
           q == t \div Second
<1>1. p \in Nat /\ s = Second * p + (s % Second) /\ s % Second \in 0..Second - 1
  BY DEF ConstantsOK
<1>2. q \in Nat /\ t = Second * q + (t % Second) /\ t % Second \in 0..Second - 1
  BY DEF ConstantsOK
<1>3. p <= q
  BY DEF Unix
<1> HIDE DEF p, q
<1>4. Second \in Nat /\ Second * p <= Second * q
  BY <1>1, <1>2, <1>3 DEF ConstantsOK
<1> QED
  BY <1>1, <1>2, <1>4

\* What the middleware lets pass has not seen the end of its second of exp.
LEMMA OkIsInTime ==
    ASSUME NEW tok, NEW t, Jwt([present |-> TRUE, token |-> tok], Secret, t) = "ok"
    PROVE  ~(Unix(t) > tok.exp)
<1> DEFINE header == [present |-> TRUE, token |-> tok]
<1>1. FromHeader(header, Secret, t) \notin {"expiredOrNotActive", "cannotParse"}
  BY DEF Jwt
<1>2. JwtParse(tok, Secret, t) \notin {"expiredOrNotActive", "cannotParse"}
  BY <1>1 DEF FromHeader
<1>3. ParseErrors(tok, Secret, t) = {}
  BY <1>2 DEF JwtParse
<1> QED
  BY <1>3 DEF ParseErrors

\* A cancelled access token is refused until its expiry, whatever is cancelled,
\* issued or refreshed meanwhile, but for less than a second at the end.
THEOREM CancelledIsRefused == ASSUME ConstantsOK PROVE Spec => []RefusedToTheEnd
<1>1. BlackInv => RefusedToTheEnd
  <2> SUFFICES ASSUME BlackInv, NEW c \in Call, cancelled[c] # Never, Accepted(c)
               PROVE  /\ now >= cancelled[c] + ExpireDuration
                      /\ now < signedAt[c] + ExpireDuration + Second
    BY DEF RefusedToTheEnd
  <2>1. now >= cancelled[c] + ExpireDuration
    <3>1. PICK fails \in BOOLEAN : LET answer == CheckBlackList(issued[c], fails)
                                   IN  ~answer.error /\ ~answer.listed
      BY DEF Accepted
    <3>2. ~(black > 0)
      BY <3>1 DEF CheckBlackList
    <3>3. black = 0
      BY <3>2 DEF BlackInv, BlackType
    <3> QED
      BY <3>3 DEF ConstantsOK, BlackInv, BlackType, Listed, Never
  <2>2. issued[c] = JwtSign(TheUser, Secret, signedAt[c], ExpireDuration)
    BY DEF BlackInv, Signed, Accepted
  <2>3. issued[c].exp = Unix(signedAt[c] + ExpireDuration)
    BY <2>2 DEF JwtSign
  <2>4. ~(Unix(now) > Unix(signedAt[c] + ExpireDuration))
    BY <2>3, OkIsInTime DEF Accepted
  <2>5. now \in Nat /\ signedAt[c] + ExpireDuration \in Nat
    BY DEF ConstantsOK, BlackInv, BlackType
  <2>6. Unix(now) <= Unix(signedAt[c] + ExpireDuration)
    BY <2>4, <2>5 DEF ConstantsOK, Unix
  <2>7. now < signedAt[c] + ExpireDuration + Second
    BY <2>5, <2>6, SameSecond
  <2> QED
    BY <2>1, <2>7
<1> QED
  BY InitBlack, NextBlack, <1>1, PTL DEF Spec

-----------------------------------------------------------------------------
(* Types.                                                                  *)

\* No entry outlives its duration.
Bounded ==
    /\ system \in {"refresh", "blackList"}
    /\ entry \in 0..RefreshDuration /\ black \in 0..ExpireDuration

LEMMA NextBounded == ASSUME ConstantsOK PROVE Bounded /\ [Next]_vars => Bounded'
<1> SUFFICES ASSUME Bounded, [Next]_vars PROVE Bounded'
  OBVIOUS
<1>1. /\ RefreshDuration \in Nat /\ ExpireDuration \in Nat
      /\ entry \in 0..RefreshDuration /\ black \in 0..ExpireDuration
  BY DEF ConstantsOK, Bounded
<1>2. ASSUME NEW c \in Call, GenerateToken(c) \/ RefreshSet(c) PROVE Bounded'
  BY <1>1, <1>2 DEF Bounded, GenerateToken, RefreshSet, SetEntry
<1>3. ASSUME NEW c \in Call, TokenCancel(c) \/ RefreshGet(c) \/ RefreshDel(c) PROVE Bounded'
  BY <1>1, <1>3 DEF Bounded, TokenCancel, RefreshGet, RefreshDel, Del, blackVars, refreshVars
<1>4. ASSUME NEW c \in Call, BlackGenerate(c) \/ BlackRefresh(c) PROVE Bounded'
  BY <1>1, <1>4 DEF Bounded, BlackGenerate, BlackRefresh, BlackCall, refreshVars
<1>5. ASSUME NEW c \in Call, BlackCancelById(c) \/ BlackCancel(c) PROVE Bounded'
  BY <1>1, <1>5 DEF Bounded, BlackCancelById, BlackCancel, BlackCall, Enter, refreshVars
<1>6. CASE Tick
  BY <1>1, <1>6 DEF Bounded, Tick, Less
<1>7. CASE UNCHANGED vars
  BY <1>7 DEF Bounded, vars
<1> QED
  BY <1>2, <1>3, <1>4, <1>5, <1>6, <1>7 DEF Next

\* The variables keep their ranges; in particular no entry of the cache outlives
\* the duration it was written with, and what is given out is what was signed.
THEOREM TypesKept == ASSUME ConstantsOK PROVE Spec => []TypeOK
<1>1. Init => Bounded
  BY DEF Init, Bounded, ConstantsOK
<1>2. RefreshInv /\ BlackInv /\ Bounded => TypeOK
  BY DEF RefreshInv, RefreshType, BlackInv, BlackType, Signed, Bounded, TypeOK
<1> QED
  BY InitRefresh, NextRefresh, InitBlack, NextBlack, NextBounded, <1>1, <1>2, PTL DEF Spec
=============================================================================
