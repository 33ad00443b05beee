------------------------------ MODULE Sessions ------------------------------
(***************************************************************************)
(* The tokens that tie a Run or Shell request to its Attach stream:        *)
(* SessionRegistry of crates/gascand/src/api.rs.  Time is the set of       *)
(* tokens whose thirty seconds are over.  HashMaps iterate in any order.   *)
(***************************************************************************)
EXTENDS Integers, Sequences, FiniteSets, Functions, SequenceTheorems, FiniteSetTheorems, TLAPS

CONSTANTS
    Tokens,
    Cap          \* 1024 in the code, for both collections

VARIABLES
    pending,     \* tokens that wait for an attach
    expired,     \* the last tokens that were dropped
    due,         \* tokens whose time is over
    issued, granted, evicted,   \* histories: handed out, claimed, pushed out
    answer       \* the last answer of claim

vars == <<pending, expired, due, issued, granted, evicted, answer>>

Init ==
    /\ pending = {} /\ expired = <<>> /\ due = {}
    /\ issued = {} /\ granted = {} /\ evicted = {} /\ answer = "none"

\* The ways to iterate over a set.
Orders(S) == Bijection(1..Cardinality(S), S)

\* remember_expired, for one token after the other.
Remember(s) ==
    LET all == expired \o s
    IN  IF Len(all) > Cap THEN SubSeq(all, Len(all) - Cap + 1, Len(all)) ELSE all

Expire(t) ==
    /\ t \in issued \ due
    /\ due' = due \cup {t}
    /\ UNCHANGED <<pending, expired, issued, granted, evicted, answer>>

\* The task that prunes every second.
Prune ==
    /\ pending \cap due # {}
    /\ \E s \in Orders(pending \cap due) : expired' = Remember(s)
    /\ pending' = pending \ due
    /\ UNCHANGED <<due, issued, granted, evicted, answer>>

\* run and shell: prune, make room, insert.
Insert(t) ==
    LET live == pending \ due
    IN  /\ t \notin issued
        /\ \E out \in IF Cardinality(live) >= Cap THEN {{u} : u \in live} ELSE {{}} :
              /\ pending' = (live \ out) \cup {t}
              /\ evicted' = evicted \cup out
              /\ \E s \in Orders(pending \cap due), e \in Orders(out) :
                    expired' = Remember(s \o e)
        /\ issued' = issued \cup {t}
        /\ UNCHANGED <<due, granted, answer>>

\* Mistake: the session is copied out, not removed.
ClaimCopies(t) ==
    /\ \/ t \in pending \ due /\ answer' = "granted" /\ granted' = granted \cup {t}
       \/ t \in pending \cap due /\ answer' = "expired" /\ UNCHANGED granted
       \/ t \notin pending /\ answer' = "unknown" /\ UNCHANGED granted
    /\ UNCHANGED <<pending, expired, due, issued, evicted>>

\* attach, with any token.
Claim(t) ==
    /\ \/ /\ t \in pending \ due
          /\ answer' = "granted" /\ granted' = granted \cup {t}
          /\ UNCHANGED expired
       \/ /\ t \in pending \cap due
          /\ answer' = "expired" /\ expired' = Remember(<<t>>)
          /\ UNCHANGED granted
       \/ /\ t \notin pending
          /\ answer' = IF t \in Range(expired) THEN "expired" ELSE "unknown"
          /\ UNCHANGED <<expired, granted>>
    /\ pending' = pending \ {t}
    /\ UNCHANGED <<due, issued, evicted>>

Next == Prune \/ \E t \in Tokens : Expire(t) \/ Insert(t) \/ Claim(t)

Spec == Init /\ [][Next]_vars

-----------------------------------------------------------------------------
(* Properties *)

\* Every token that was handed out is in one place: it waits, it was claimed,
\* it is remembered as expired, or it was forgotten because as many others
\* expired after it as the registry remembers.
TokensAreAccountedFor ==
    LET forgotten == issued \ (pending \cup granted \cup Range(expired))
    IN  /\ pending \cap granted = {}
        /\ (pending \cup granted) \cap Range(expired) = {}
        /\ IsInjective(expired) /\ Len(expired) <= Cap /\ Cardinality(pending) <= Cap
        /\ forgotten # {} => Len(expired) = Cap

\* A session whose time is not over is lost only when the registry is full of
\* such sessions: insert prunes before it evicts.
LiveSessionsAreKept ==
    [][\A t \in pending \ due : t \notin pending' =>
          t \in granted' \/ Cardinality(pending \ due) >= Cap]_vars

-----------------------------------------------------------------------------
(* Proofs, for any limit and any number of tokens.  The invariant adds that  *)
(* whatever the registry holds was handed out.                               *)

SessionInvariant ==
    /\ expired \in Seq(Tokens) /\ issued \subseteq Tokens /\ IsFiniteSet(pending)
    /\ pending \cup granted \cup Range(expired) \subseteq issued
    /\ TokensAreAccountedFor

\* Two sequences without repetition and without a common element make one.
LEMMA Joined ==
    ASSUME NEW T, NEW s \in Seq(T), NEW e \in Seq(T), IsInjective(s), IsInjective(e),
           Range(s) \cap Range(e) = {}
    PROVE  s \o e \in Seq(T) /\ IsInjective(s \o e) /\ Range(s \o e) = Range(s) \cup Range(e)
<1> DEFINE j == s \o e
<1>1. /\ j \in Seq(T) /\ Len(j) = Len(s) + Len(e) /\ DOMAIN j = 1..Len(s) + Len(e)
      /\ \A i \in 1..Len(s) + Len(e) : j[i] = IF i <= Len(s) THEN s[i] ELSE e[i - Len(s)]
  BY ConcatProperties
<1>2. Len(s) \in Nat /\ Len(e) \in Nat /\ DOMAIN s = 1..Len(s) /\ DOMAIN e = 1..Len(e)
  OBVIOUS
<1> HIDE DEF j
<1>3. ASSUME NEW i \in 1..Len(s) + Len(e)
      PROVE  \/ i \in 1..Len(s) /\ j[i] = s[i] /\ j[i] \in Range(s)
             \/ i - Len(s) \in 1..Len(e) /\ j[i] = e[i - Len(s)] /\ j[i] \in Range(e)
  <2>1. CASE i <= Len(s)
    BY <1>1, <1>2, <2>1 DEF Range
  <2>2. CASE ~(i <= Len(s))
    <3>1. i - Len(s) \in 1..Len(e) /\ j[i] = e[i - Len(s)]
      BY <1>1, <1>2, <2>2
    <3> QED
      BY <1>2, <3>1 DEF Range
  <2> QED
    BY <2>1, <2>2
<1>4. ASSUME NEW a \in DOMAIN j, NEW b \in DOMAIN j, j[a] = j[b] PROVE a = b
  <2>1. a \in 1..Len(s) + Len(e) /\ b \in 1..Len(s) + Len(e)
    BY <1>1, <1>4
  <2>2. CASE a \in 1..Len(s) /\ b \in 1..Len(s) /\ s[a] = s[b]
    BY <1>2, <2>2 DEF IsInjective
  <2>3. CASE a - Len(s) \in 1..Len(e) /\ b - Len(s) \in 1..Len(e) /\ e[a - Len(s)] = e[b - Len(s)]
    <3>1. a - Len(s) = b - Len(s)
      BY <1>2, <2>3 DEF IsInjective
    <3> QED
      BY <1>2, <2>1, <3>1
  <2> QED
    BY <1>3, <1>4, <2>1, <2>2, <2>3
<1>5. Range(j) \subseteq Range(s) \cup Range(e)
  BY <1>1, <1>3 DEF Range
<1>6. Range(s) \subseteq Range(j)
  <2> SUFFICES ASSUME NEW i \in 1..Len(s) PROVE s[i] \in Range(j)
    BY <1>2 DEF Range
  <2>1. i \in 1..Len(s) + Len(e) /\ i <= Len(s)
    BY <1>2
  <2>2. j[i] = s[i]
    BY <1>1, <2>1
  <2> QED
    BY <1>1, <2>1, <2>2 DEF Range
<1>7. Range(e) \subseteq Range(j)
  <2> SUFFICES ASSUME NEW i \in 1..Len(e) PROVE e[i] \in Range(j)
    BY <1>2 DEF Range
  <2>1. i + Len(s) \in 1..Len(s) + Len(e) /\ ~(i + Len(s) <= Len(s)) /\ (i + Len(s)) - Len(s) = i
    BY <1>2
  <2>2. j[i + Len(s)] = e[i]
    BY <1>1, <2>1
  <2> QED
    BY <1>1, <2>1, <2>2 DEF Range
<1> QED
  BY <1>1, <1>4, <1>5, <1>6, <1>7 DEF IsInjective, j

\* An order of iteration lists every element once.
LEMMA OrdersList ==
    ASSUME NEW S, IsFiniteSet(S), NEW s \in Orders(S)
    PROVE  s \in Seq(S) /\ IsInjective(s) /\ Range(s) = S
<1>1. Cardinality(S) \in Nat
  BY FS_CardinalityType
<1>2. s \in [1..Cardinality(S) -> S] /\ IsInjective(s)
      /\ \A t \in S : \E i \in 1..Cardinality(S) : s[i] = t
  BY DEF Orders, Bijection, Injection, Surjection
<1> QED
  BY <1>1, <1>2, SeqDef DEF Range

\* What remember_expired leaves: everything, or as much as it may hold.
LEMMA Remembers ==
    ASSUME Cap \in Nat, expired \in Seq(Tokens), IsInjective(expired), Len(expired) <= Cap,
           NEW s \in Seq(Tokens), IsInjective(s), Range(s) \cap Range(expired) = {}
    PROVE  LET e == Remember(s) IN
           /\ e \in Seq(Tokens) /\ IsInjective(e) /\ Len(expired) <= Len(e) /\ Len(e) <= Cap
           /\ Range(e) \subseteq Range(expired) \cup Range(s)
           /\ Len(e) = Cap \/ Range(e) = Range(expired) \cup Range(s)
<1> DEFINE all == expired \o s
<1>1. all \in Seq(Tokens) /\ IsInjective(all) /\ Range(all) = Range(expired) \cup Range(s)
  BY Joined
<1>2. Len(all) = Len(expired) + Len(s) /\ Len(expired) \in Nat /\ Len(s) \in Nat
  BY ConcatProperties
<1>3. Remember(s) = IF Len(all) > Cap THEN SubSeq(all, Len(all) - Cap + 1, Len(all)) ELSE all
  BY DEF Remember
<1> HIDE DEF all
<1>4. CASE Len(all) > Cap
  <2> DEFINE n == Len(all)
             e == SubSeq(all, n - Cap + 1, n)
  <2>1. n \in Nat /\ DOMAIN all = 1..n /\ \A i \in n - Cap + 1..n : i \in 1..n /\ all[i] \in Tokens
    BY <1>1, <1>4
  <2>2. /\ e \in Seq(Tokens)
        /\ Len(e) = IF n - Cap + 1 <= n THEN n - (n - Cap + 1) + 1 ELSE 0
        /\ \A i \in 1..n - (n - Cap + 1) + 1 : e[i] = all[n - Cap + 1 + i - 1]
    BY <2>1, SubSeqProperties
  <2>3. Len(e) = Cap /\ DOMAIN e = 1..Cap
    BY <2>1, <2>2
  <2> HIDE DEF e
  <2>4. ASSUME NEW i \in 1..Cap PROVE i + (n - Cap) \in DOMAIN all /\ e[i] = all[i + (n - Cap)]
    BY <1>4, <2>1, <2>2
  <2>5. IsInjective(e)
    <3> SUFFICES ASSUME NEW a \in 1..Cap, NEW b \in 1..Cap, e[a] = e[b] PROVE a = b
      BY <2>3 DEF IsInjective
    <3>1. a + (n - Cap) = b + (n - Cap)
      BY <1>1, <2>4 DEF IsInjective
    <3> QED
      BY <2>1, <3>1
  <2>6. Range(e) \subseteq Range(all)
    BY <2>3, <2>4 DEF Range
  <2> QED
    BY <1>1, <1>3, <1>4, <2>2, <2>3, <2>5, <2>6 DEF e
<1>5. CASE ~(Len(all) > Cap)
  BY <1>1, <1>2, <1>3, <1>5
<1> QED
  BY <1>4, <1>5

\* The registry takes on tokens of its own that were not expired before.
LEMMA Dropped ==
    ASSUME Cap \in Nat \ {0}, SessionInvariant,
           NEW out, out \subseteq pending, NEW s \in Seq(out), IsInjective(s), Range(s) = out,
           expired' = Remember(s), granted' = granted, IsFiniteSet(pending'),
           pending \ out \subseteq pending', pending' \cap (out \cup Range(expired)) = {},
           pending' \subseteq issued', issued \subseteq issued', issued' \subseteq Tokens,
           issued' \subseteq issued \cup pending', pending' \cap granted = {},
           Cardinality(pending') <= Cap
    PROVE  SessionInvariant'
<1>1. s \in Seq(Tokens) /\ Range(s) \cap Range(expired) = {}
  BY DEF SessionInvariant, TokensAreAccountedFor
<1>2. /\ expired' \in Seq(Tokens) /\ IsInjective(expired')
      /\ Len(expired) <= Len(expired') /\ Len(expired') <= Cap
      /\ Range(expired') \subseteq Range(expired) \cup out
      /\ Len(expired') = Cap \/ Range(expired') = Range(expired) \cup out
  BY <1>1, Remembers DEF SessionInvariant, TokensAreAccountedFor
<1>3. ((granted \cup pending') \cap Range(expired') = {}) /\ Range(expired') \subseteq issued
  BY <1>2 DEF SessionInvariant, TokensAreAccountedFor
<1>4. issued' \ (pending' \cup granted \cup Range(expired')) # {} => Len(expired') = Cap
  <2>1. Len(expired) \in Nat /\ Len(expired') \in Nat
    BY <1>2 DEF SessionInvariant
  <2>2. CASE Len(expired) = Cap
    BY <1>2, <2>1, <2>2
  <2>3. CASE issued \subseteq pending \cup granted \cup Range(expired)
    BY <1>2, <2>3
  <2> QED
    BY <2>2, <2>3 DEF SessionInvariant, TokensAreAccountedFor
<1> QED
  BY <1>2, <1>3, <1>4 DEF SessionInvariant, TokensAreAccountedFor

\* Tokens are handed out, expire, are pruned, evicted and claimed.
LEMMA SessionStep ==
    ASSUME Cap \in Nat \ {0}, SessionInvariant, [Next]_vars
    PROVE  SessionInvariant'
<1>1. CASE UNCHANGED vars
  BY <1>1 DEF vars, SessionInvariant, TokensAreAccountedFor
<1>2. CASE Prune
  <2>1. PICK s \in Orders(pending \cap due) : expired' = Remember(s)
    BY <1>2 DEF Prune
  <2>2. IsFiniteSet(pending \cap due) /\ IsFiniteSet(pending \ due)
        /\ Cardinality(pending \ due) <= Cardinality(pending)
        /\ Cardinality(pending \ due) \in Nat /\ Cardinality(pending) \in Nat
    BY FS_Subset, FS_CardinalityType DEF SessionInvariant
  <2>3. s \in Seq(pending \cap due) /\ IsInjective(s) /\ Range(s) = pending \cap due
    BY <2>1, <2>2, OrdersList
  <2>4. pending' = pending \ due /\ issued' = issued /\ granted' = granted
    BY <1>2 DEF Prune
  <2>5. /\ pending' \cap ((pending \cap due) \cup Range(expired)) = {} /\ pending' \cap granted = {}
        /\ pending' \subseteq issued' /\ issued' \subseteq Tokens
        /\ Cardinality(pending') <= Cap /\ IsFiniteSet(pending')
    BY <2>2, <2>4 DEF SessionInvariant, TokensAreAccountedFor
  <2>6. pending \cap due \subseteq pending /\ pending \ (pending \cap due) \subseteq pending'
    BY <2>4
  <2> QED
    BY <2>1, <2>3, <2>4, <2>5, <2>6, Dropped
<1>3. ASSUME NEW t \in Tokens, Expire(t) PROVE SessionInvariant'
  BY <1>3 DEF Expire, SessionInvariant, TokensAreAccountedFor
<1>4. ASSUME NEW t \in Tokens, Insert(t) PROVE SessionInvariant'
  <2> DEFINE live == pending \ due
  <2>1. PICK out \in IF Cardinality(live) >= Cap THEN {{u} : u \in live} ELSE {{}} :
             /\ pending' = (live \ out) \cup {t}
             /\ \E s \in Orders(pending \cap due), e \in Orders(out) : expired' = Remember(s \o e)
    BY <1>4 DEF Insert
  <2>2. PICK s \in Orders(pending \cap due), e \in Orders(out) : expired' = Remember(s \o e)
    BY <2>1
  <2>3. out \subseteq live
    BY <2>1
  <2>4. IsFiniteSet(pending \cap due) /\ IsFiniteSet(live) /\ IsFiniteSet(out)
        /\ Cardinality(live) <= Cardinality(pending)
        /\ Cardinality(live) \in Nat /\ Cardinality(pending) \in Nat
    BY <2>3, FS_Subset, FS_CardinalityType DEF SessionInvariant
  <2>5. /\ s \in Seq(pending \cap due) /\ IsInjective(s) /\ Range(s) = pending \cap due
        /\ e \in Seq(out) /\ IsInjective(e) /\ Range(e) = out
    BY <2>4, OrdersList
  <2> DEFINE gone == (pending \cap due) \cup out
  <2>6. s \o e \in Seq(gone) /\ IsInjective(s \o e) /\ Range(s \o e) = gone
    <3>1. s \in Seq(gone) /\ e \in Seq(gone)
      BY <2>5
    <3> QED
      BY <2>3, <2>5, <3>1, Joined
  <2>7. t \notin issued /\ issued' = issued \cup {t} /\ granted' = granted
    BY <1>4 DEF Insert
  <2>8. IsFiniteSet(pending') /\ Cardinality(pending') <= Cap
    <3>1. Cardinality(pending) <= Cap
      BY DEF SessionInvariant, TokensAreAccountedFor
    <3>2. IsFiniteSet(live \ out) /\ Cardinality(live \ out) < Cap
          /\ Cardinality(live \ out) \in Nat
      <4>1. CASE Cardinality(live) >= Cap
        <5>1. PICK u \in live : out = {u}
          BY <2>1, <4>1
        <5>2. IsFiniteSet(live \ {u}) /\ Cardinality(live \ {u}) = Cardinality(live) - 1
          BY <2>4, FS_RemoveElement
        <5> QED
          BY <2>4, <3>1, <4>1, <5>1, <5>2
      <4>2. CASE ~(Cardinality(live) >= Cap)
        <5>1. live \ out = live
          BY <2>1, <4>2
        <5> QED
          BY <2>4, <4>2, <5>1
      <4> QED
        BY <4>1, <4>2
    <3>3. /\ IsFiniteSet((live \ out) \cup {t})
          /\ Cardinality((live \ out) \cup {t}) =
                IF t \in live \ out THEN Cardinality(live \ out) ELSE Cardinality(live \ out) + 1
      BY <3>2, FS_AddElement
    <3> QED
      BY <2>1, <3>2, <3>3
  <2>9. pending \ gone \subseteq pending' /\ gone \subseteq pending
        /\ pending' \subseteq (pending \ gone) \cup {t}
    BY <2>1, <2>3
  <2> HIDE DEF gone, live
  <2>10. /\ pending' \cap (gone \cup Range(expired)) = {} /\ pending' \cap granted = {}
         /\ pending' \subseteq issued' /\ issued' \subseteq Tokens
    BY <2>7, <2>9 DEF SessionInvariant, TokensAreAccountedFor
  <2>11. issued \subseteq issued' /\ issued' \subseteq issued \cup pending'
    BY <2>1, <2>7
  <2> QED
    BY <2>2, <2>6, <2>7, <2>8, <2>9, <2>10, <2>11, Dropped
<1>5. ASSUME NEW t \in Tokens, Claim(t) PROVE SessionInvariant'
  <2>1. pending' = pending \ {t} /\ issued' = issued
    BY <1>5 DEF Claim
  <2>2. IsFiniteSet(pending \ {t}) /\ Cardinality(pending \ {t}) <= Cap
    <3>1. IsFiniteSet(pending \ {t}) /\ Cardinality(pending \ {t}) <= Cardinality(pending)
          /\ Cardinality(pending \ {t}) \in Nat /\ Cardinality(pending) \in Nat
      BY FS_Subset, FS_CardinalityType DEF SessionInvariant
    <3> QED
      BY <3>1 DEF SessionInvariant, TokensAreAccountedFor
  <2>3. CASE t \in pending \ due /\ granted' = granted \cup {t} /\ UNCHANGED expired
    BY <2>1, <2>2, <2>3 DEF SessionInvariant, TokensAreAccountedFor
  <2>4. CASE t \in pending \cap due /\ expired' = Remember(<<t>>) /\ UNCHANGED granted
    <3>1. <<t>> \in Seq({t}) /\ IsInjective(<<t>>) /\ Range(<<t>>) = {t}
      BY DEF IsInjective, Range
    <3> QED
      BY <2>1, <2>2, <2>4, <3>1, Dropped DEF SessionInvariant, TokensAreAccountedFor
  <2>5. CASE t \notin pending /\ UNCHANGED <<expired, granted>>
    BY <2>1, <2>2, <2>5 DEF SessionInvariant, TokensAreAccountedFor
  <2> QED
    BY <1>5, <2>3, <2>4, <2>5 DEF Claim
<1> QED
  BY <1>1, <1>2, <1>3, <1>4, <1>5 DEF Next

\* SessionRegistry never has a token in two places, never holds more than its
\* limits, and forgets an expired one only when it remembers as many others.
THEOREM TokensStayAccountedFor ==
    ASSUME Cap \in Nat \ {0}
    PROVE  Spec => []TokensAreAccountedFor
<1>1. Init => SessionInvariant
  BY FS_EmptySet DEF Init, SessionInvariant, TokensAreAccountedFor, Range, IsInjective
<1>2. SessionInvariant => TokensAreAccountedFor
  BY DEF SessionInvariant
<1> QED
  BY <1>1, <1>2, SessionStep, PTL DEF Spec

\* Nor does it drop a session in time unless it is full of such sessions: insert
\* prunes what has expired before it evicts.
THEOREM LiveSessionsStay ==
    ASSUME Cap \in Nat \ {0}
    PROVE  Spec => LiveSessionsAreKept
<1>1. ASSUME Next, NEW t \in pending \ due, t \notin pending'
      PROVE  t \in granted' \/ Cardinality(pending \ due) >= Cap
  BY <1>1 DEF Next, Prune, Expire, Insert, Claim
<1>2. [Next]_vars => [\A t \in pending \ due : t \notin pending' =>
                         t \in granted' \/ Cardinality(pending \ due) >= Cap]_vars
  BY <1>1
<1> QED
  BY <1>2, PTL DEF Spec, LiveSessionsAreKept

=============================================================================
