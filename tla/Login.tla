-------------------------------- MODULE Login --------------------------------
(***************************************************************************)
(* pkg/login: the two credential systems over one cache, for one user.     *)
(* A RefreshTokenSystem keeps an entry under the user's refresh token,     *)
(* which is the same for every login of that user; a BlackListSystem keeps *)
(* an entry while the user's access tokens are to be refused.  Calls run   *)
(* concurrently, and a request to the cache may fail.                      *)
(***************************************************************************)
EXTENDS Naturals

CONSTANTS
    Second,           \* ticks to a second
    ExpireDuration,   \* life of an access token and of a black-list entry
    RefreshDuration,  \* life of a refresh-token entry
    MaxCalls,         \* bound: calls that are made
    MaxTime           \* bound: ticks that pass

\* What a program gives: durations that are there.
ConstantsOK ==
    /\ Second \in Nat \ {0} /\ MaxCalls \in Nat /\ MaxTime \in Nat
    /\ ExpireDuration \in Nat \ {0} /\ RefreshDuration \in Nat \ {0}

INSTANCE Token

Call == 1..MaxCalls
TheUser == 1
Secret == "secret"

VARIABLES
    system,     \* which of the two was configured
    now,        \* time in ticks
    entry,      \* ticks the refresh-token entry lives, 0: none
    black,      \* ticks the black-list entry lives, 0: none
    pc,         \* call -> how far it is
    issued,     \* call -> the access token it has given out
    signedAt,   \* history: call -> when
    cancelled,  \* history: call -> when the token it gave out was cancelled first
    overlap,    \* history: refreshes that had read the entry before a cancellation
    revived,    \* history: was the entry written again since the last cancellation,
                \* by a login or by a refresh in overlap?
    good        \* history: ticks for which the last answer promises a refresh

vars == <<system, now, entry, black, pc, issued, signedAt, cancelled, overlap,
          revived, good>>
blackVars == <<black, signedAt, cancelled>>
refreshVars == <<entry, overlap, revived, good>>

None == Garbled
Never == MaxTime + 1

TypeOK ==
    /\ system \in {"refresh", "blackList"}
    /\ now \in 0..MaxTime
    /\ entry \in 0..RefreshDuration /\ black \in 0..ExpireDuration
    /\ pc \in [Call -> {"idle", "got", "deleted", "done"}]
    /\ \A c \in Call : issued[c] = None
                       \/ issued[c] = JwtSign(TheUser, Secret, signedAt[c], ExpireDuration)
    /\ signedAt \in [Call -> 0..MaxTime] /\ cancelled \in [Call -> 0..Never]
    /\ overlap \in SUBSET Call /\ revived \in BOOLEAN /\ good \in 0..RefreshDuration

Init ==
    /\ system \in {"refresh", "blackList"}
    /\ now = 0 /\ entry = 0 /\ black = 0
    /\ pc = [c \in Call |-> "idle"]
    /\ issued = [c \in Call |-> None]
    /\ signedAt = [c \in Call |-> 0]
    /\ cancelled = [c \in Call |-> Never]
    /\ overlap = {} /\ revived = TRUE /\ good = 0

Less(t) == IF t > 0 THEN t - 1 ELSE 0

\* Time passes; the cache forgets what has expired.
Tick ==
    /\ now < MaxTime
    /\ now' = now + 1
    /\ entry' = Less(entry) /\ black' = Less(black) /\ good' = Less(good)
    /\ UNCHANGED <<system, pc, issued, signedAt, cancelled, overlap, revived>>

Goto(c, from, to) == pc[c] = from /\ pc' = [pc EXCEPT ![c] = to]
Sign(c) == issued' = [issued EXCEPT ![c] = JwtSign(TheUser, Secret, now, ExpireDuration)]

-----------------------------------------------------------------------------
(* RefreshTokenSystem.                                                     *)

\* The entry is written and the answer given.  A failed Set, which may have taken
\* effect, is an error.
SetEntry(c) ==
    \/ /\ entry' = RefreshDuration /\ good' = RefreshDuration
       /\ Sign(c) /\ signedAt' = [signedAt EXCEPT ![c] = now]
    \/ /\ entry' \in {entry, RefreshDuration}
       /\ good' = IF pc[c] = "idle" THEN good ELSE 0
       /\ UNCHANGED <<issued, signedAt>>

GenerateToken(c) ==
    /\ system = "refresh"
    /\ Goto(c, "idle", "done")
    /\ SetEntry(c)
    /\ revived' = (revived \/ entry' # entry \/ good' # good)
    /\ UNCHANGED <<system, now, black, cancelled, overlap>>

\* TokenCancel: Del, whose failure is not reported.
Del == entry' \in {0, entry}

\* TokenCancel and TokenCancelById: the token is made of the user, so they are one.
TokenCancel(c) ==
    /\ system = "refresh"
    /\ Goto(c, "idle", "done")
    /\ Del
    /\ IF entry' = 0
       THEN /\ revived' = FALSE
            /\ overlap' = {d \in Call : pc[d] \in {"got", "deleted"}}
       ELSE UNCHANGED <<revived, overlap>>
    /\ good' = 0
    /\ UNCHANGED <<system, now, black, issued, signedAt, cancelled>>

\* Mutant of RefreshGet: an absent entry is not told from an empty one.
RefreshGetAny(c) ==
    /\ system = "refresh"
    /\ Goto(c, "idle", "got")
    /\ UNCHANGED <<system, now, issued, blackVars, refreshVars>>

\* RefreshToken: no entry, or no answer, is an error.
RefreshGet(c) ==
    /\ system = "refresh"
    /\ \/ entry > 0 /\ Goto(c, "idle", "got")
       \/ Goto(c, "idle", "done")
    /\ UNCHANGED <<system, now, issued, blackVars, refreshVars>>

RefreshDel(c) ==
    /\ Goto(c, "got", "deleted")
    /\ Del
    /\ UNCHANGED <<system, now, issued, blackVars, overlap, revived, good>>

\* Mutant of RefreshSet: the token is written first and deleted last.
RefreshDelLast(c) ==
    /\ Goto(c, "deleted", "done")
    /\ entry' = 0 /\ good' = RefreshDuration
    /\ Sign(c) /\ signedAt' = [signedAt EXCEPT ![c] = now]
    /\ UNCHANGED <<system, now, black, cancelled, overlap, revived>>

RefreshSet(c) ==
    /\ Goto(c, "deleted", "done")
    /\ SetEntry(c)
    /\ revived' = (revived \/ (c \in overlap /\ entry' > 0))
    /\ UNCHANGED <<system, now, black, cancelled, overlap>>

-----------------------------------------------------------------------------
(* BlackListSystem.                                                        *)

BlackCall(c) ==
    /\ system = "blackList"
    /\ Goto(c, "idle", "done")
    /\ UNCHANGED <<system, now, refreshVars>>

\* GenerateToken, and RefreshToken of a token whose validity is not looked at.
BlackGenerate(c) ==
    /\ BlackCall(c)
    /\ Sign(c) /\ signedAt' = [signedAt EXCEPT ![c] = now]
    /\ UNCHANGED <<black, cancelled>>

BlackRefresh(c) ==
    /\ \E k \in Call : issued[k] # None /\ JwtParseUnsafe(issued[k]) = "valid"
    /\ BlackGenerate(c)

\* Mutant of Enter: the entry's time is added to what is left of it.
EnterAdds ==
    /\ black' = black + ExpireDuration
    /\ cancelled' = [k \in Call |-> IF issued[k] # None /\ cancelled[k] = Never
                                    THEN now ELSE cancelled[k]]

\* The entry is written for the user: all that was issued so far is cancelled.
Enter ==
    /\ black' = ExpireDuration
    /\ cancelled' = [k \in Call |-> IF issued[k] # None /\ cancelled[k] = Never
                                    THEN now ELSE cancelled[k]]

BlackCancelById(c) ==
    /\ BlackCall(c)
    /\ Enter \/ UNCHANGED <<black, cancelled>>
    /\ UNCHANGED <<issued, signedAt>>

\* A token that does not parse is left alone.
BlackCancel(c) ==
    /\ BlackCall(c)
    /\ \E k \in Call :
        /\ issued[k] # None
        /\ \/ JwtParse(issued[k], Secret, now) = "valid" /\ Enter
           \/ UNCHANGED <<black, cancelled>>
    /\ UNCHANGED <<issued, signedAt>>

\* Mutant of CheckBlackList: an entry is asked for under the token, never found.
CheckBlackListMissing(tok, fails) == [listed |-> FALSE, error |-> fails]

\* A token without readable claims and a Get that fails, for another reason than
\* that there is no entry, give false with an error.
CheckBlackList(tok, fails) ==
    LET error == JwtParseUnsafe(tok) = "cannotParse" \/ fails
    IN  [listed |-> ~error /\ black > 0, error |-> error]

\* What the middlewares of a service let pass: Jwt, then a CheckBlackList that
\* answers false and no error.
Accepted(c) ==
    /\ issued[c] # None
    /\ Jwt([present |-> TRUE, token |-> issued[c]], Secret, now) = "ok"
    /\ \E fails \in BOOLEAN :
          LET answer == CheckBlackList(issued[c], fails) IN ~answer.error /\ ~answer.listed

Next ==
    \/ Tick
    \/ \E c \in Call :
        \/ GenerateToken(c) \/ TokenCancel(c)
        \/ RefreshGet(c) \/ RefreshDel(c) \/ RefreshSet(c)
        \/ BlackGenerate(c) \/ BlackRefresh(c) \/ BlackCancelById(c) \/ BlackCancel(c)

Spec == Init /\ [][Next]_vars

-----------------------------------------------------------------------------
(* Properties.                                                             *)

\* Once the refresh token was deleted (user_login.go:92) it is usable again only
\* through a login or a refresh that had read it before: RefreshToken at 97-114
\* reads, deletes and writes in three requests.
CancelSticks == ~revived => entry = 0

\* A user who was told of a login or refresh less than RefreshDuration ago can
\* refresh, unless he cancelled, a later refresh of his failed, or one is between
\* its Del and its Set (user_login.go:112-114): all of them are about one key.
LoginLasts == good > 0 => entry > 0 \/ \E c \in Call : pc[c] = "deleted"

\* A cancelled access token is refused until its own expiry, but for less than a
\* second at the end: the entry lives for ExpireDuration from the cancellation
\* (user_login.go:178, 195), the token until the second of exp is over.
RefusedToTheEnd ==
    \A c \in Call :
        cancelled[c] # Never /\ Accepted(c) =>
            /\ now >= cancelled[c] + ExpireDuration
            /\ now < signedAt[c] + ExpireDuration + Second
=============================================================================
