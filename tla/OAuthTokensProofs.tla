------------------------- MODULE OAuthTokensProofs -------------------------
(* Theorems about OAuthTokens, for every value of its constants. *)
EXTENDS OAuthTokens, FiniteSetTheorems, TLAPS

-----------------------------------------------------------------------------
(* The inductive invariant *)

\* A live access token has its back-pointer, a live refresh token its family, and
\* both are listed under the family: nothing alive is out of reach of a rotation
\* or of a revocation of the family.
Reachable ==
  /\ access \subseteq backPtr
  /\ refresh \subseteq active
  /\ Live \subseteq tracked

\* Families are numbered by their first pair.
FamiliesKnown ==
  /\ \A n \in DOMAIN pairs : Family(n) \in DOMAIN pairs
  /\ reused \subseteq DOMAIN pairs

\* The code and the family of a pair determine each other, and a code that was
\* exchanged is out of the table.
CodesSpent ==
  /\ OneFamilyPerCode
  /\ \A n \in DOMAIN pairs : pairs[n].code \notin codes
  /\ \A n \in DOMAIN pairs : pairs[n].code \in DOMAIN issued

\* What the loop found in the tables still holds while it is in the middle of a
\* request: only the portal's thread ran since, and it touches none of this.
InFlight ==
  /\ call.kind = "none" => call.item = 0
  /\ call.kind = "code" => call.item \in codes
  /\ call.kind = "refresh" =>
       /\ call.item \in active
       /\ Family(call.item) \notin reused
       /\ \A m \in DOMAIN pairs : Family(m) = Family(call.item) => m <= call.item

IInv ==
  /\ TypeOK
  /\ Reachable
  /\ FamiliesKnown
  /\ CodesSpent
  /\ InFlight
  /\ OnlyNewestLives
  /\ ReusedFamilyIsDead

-----------------------------------------------------------------------------
(* Facts about the helpers *)

LEMMA GcSubset == \A S, l : Gc(S, l) \subseteq S
BY DEF Gc

\* Appending leaves the earlier elements where they were.
LEMMA AppendFacts ==
  ASSUME NEW S, NEW s \in Seq(S), NEW e \in S
  PROVE  /\ Append(s, e) \in Seq(S)
         /\ DOMAIN Append(s, e) = DOMAIN s \cup {Len(s) + 1}
         /\ Len(s) + 1 \notin DOMAIN s
         /\ Append(s, e)[Len(s) + 1] = e
         /\ \A i \in DOMAIN s : Append(s, e)[i] = s[i]
         /\ \A i \in DOMAIN s : i \in Nat /\ i < Len(s) + 1
OBVIOUS

\* Dropping the oldest consumed tokens keeps a sequence of the same elements.
LEMMA GcConsumedType ==
  ASSUME TypeOK
  PROVE  GcConsumed \in Seq(DOMAIN pairs)
<1>1. consumed \in Seq(DOMAIN pairs)
  BY DEF TypeOK
<1>2. CASE Len(consumed) >= MaxRefresh
  <2>1. /\ Len(consumed) - MaxRefresh + 2 \in 1 .. Len(consumed) + 1
        /\ Len(consumed) \in Nat
    BY <1>1, <1>2, ConstantsAssumption DEF ConstantsAssumption
  <2>2. SubSeq(consumed, Len(consumed) - MaxRefresh + 2, Len(consumed)) \in Seq(DOMAIN pairs)
    BY <1>1, <2>1
  <2> QED BY <1>2, <2>2 DEF GcConsumed
<1>3. CASE ~(Len(consumed) >= MaxRefresh)
  BY <1>1, <1>3 DEF GcConsumed
<1> QED BY <1>2, <1>3

\* What minting a pair does, whoever asks for it.
LEMMA MintFacts ==
  ASSUME TypeOK, NEW pair \in PairRec, NEW A \in SUBSET access, NEW R \in SUBSET refresh,
         Mint(pair, A, R)
  PROVE  /\ pairs' \in Seq(PairRec)
         /\ DOMAIN pairs' = DOMAIN pairs \cup {NewPair}
         /\ NewPair \in Nat \ {0} /\ NewPair \notin DOMAIN pairs
         /\ \A n \in DOMAIN pairs : pairs'[n] = pairs[n] /\ n \in Nat /\ n < NewPair
         /\ pairs'[NewPair] = pair
         /\ access' \subseteq A \cup {NewPair}
         /\ refresh' \subseteq R \cup {NewPair}
         /\ tracked' = tracked \cup {NewPair}
<1>1. pairs \in Seq(PairRec) /\ pairs' = Append(pairs, pair)
  BY DEF TypeOK, Mint
<1>2. Gc(A, MaxAccess) \subseteq A /\ Gc(R, MaxRefresh) \subseteq R
  BY GcSubset
<1> QED BY <1>1, <1>2, AppendFacts DEF Mint, NewPair

-----------------------------------------------------------------------------
(* The invariant is inductive *)

LEMMA InitIInv == Init => IInv
BY DEF Init, IInv, TypeOK, Status, NoCall, Reachable, Live,
       FamiliesKnown, CodesSpent, OneFamilyPerCode, InFlight, OnlyNewestLives,
       ReusedFamilyIsDead

\* What the exchange of a code changes in the tables, and what it mints.
LEMMA CodeMints ==
  ASSUME IInv, ExchangeCode
  PROVE  LET q == call.item
             pair == pairs'[NewPair]
         IN  /\ call.kind = "code" /\ q \in codes /\ q \in DOMAIN issued /\ q \in Nat
             /\ issued[q] \in CodeRec
             /\ pairs' \in Seq(PairRec)
             /\ DOMAIN pairs' = DOMAIN pairs \cup {NewPair}
             /\ NewPair \in Nat \ {0} /\ NewPair \notin DOMAIN pairs
             /\ \A n \in DOMAIN pairs : pairs'[n] = pairs[n] /\ n \in Nat /\ n < NewPair
             /\ access' \subseteq access \cup {NewPair}
             /\ refresh' \subseteq refresh \cup {NewPair} /\ NewPair \in refresh'
             /\ tracked' = tracked \cup {NewPair}
             /\ pair.family = NewPair /\ pair.code = q /\ pair.parent = 0
             /\ pair.scopes = issued[q].scopes /\ pair.client = issued[q].client
             /\ pair.user = issued[q].user /\ pair.role = issued[q].role
<1> DEFINE q == call.item
           minting(fp) == [client |-> issued[q].client, user |-> issued[q].user,
              role |-> issued[q].role, scopes |-> issued[q].scopes, fp |-> fp,
              family |-> NewPair, code |-> q, parent |-> 0]
<1>1. PICK fp \in Nat : Mint(minting(fp), access, refresh)
  <2>1. issued[q] \in CodeRec
    BY DEF IInv, TypeOK, ExchangeCode
  <2>2. \A readable \in BOOLEAN : Fingerprint(issued[q].user, readable) \in Nat
    BY <2>1 DEF Fingerprint, IInv, TypeOK, CodeRec
  <2> QED BY <2>2, ConstantsAssumption DEF ExchangeCode, ConstantsAssumption
<1> DEFINE pair == minting(fp)
<1>2. /\ q \in DOMAIN issued /\ q \in Nat /\ issued[q] \in CodeRec
      /\ q \in codes /\ call.kind = "code"
      /\ NewPair \in Nat
  BY DEF IInv, TypeOK, ExchangeCode, InFlight, NewPair
<1>3. pair \in PairRec
  BY <1>2 DEF PairRec, CodeRec
<1>4. /\ pair.family = NewPair /\ pair.code = q /\ pair.parent = 0
      /\ pair.scopes = issued[q].scopes /\ pair.client = issued[q].client
      /\ pair.user = issued[q].user /\ pair.role = issued[q].role
  OBVIOUS
<1>5. Mint(pair, access, refresh)
  BY <1>1
<1> HIDE DEF minting, pair
<1>6. NewPair \in refresh'
  BY <1>5 DEF Mint
<1> QED BY <1>2, <1>3, <1>4, <1>5, <1>6, MintFacts DEF IInv

LEMMA ExchangeCodeStep == ASSUME IInv, ExchangeCode PROVE IInv'
<1> DEFINE q == call.item
           pair == pairs'[NewPair]
<1>1. /\ q \in codes /\ q \in DOMAIN issued /\ q \in Nat
      /\ pairs' \in Seq(PairRec)
      /\ DOMAIN pairs' = DOMAIN pairs \cup {NewPair}
      /\ NewPair \in Nat \ {0} /\ NewPair \notin DOMAIN pairs
      /\ \A n \in DOMAIN pairs : pairs'[n] = pairs[n] /\ n \in Nat /\ n < NewPair
      /\ access' \subseteq access \cup {NewPair}
      /\ refresh' \subseteq refresh \cup {NewPair}
      /\ tracked' = tracked \cup {NewPair}
      /\ pair.family = NewPair /\ pair.code = q
  BY CodeMints
<1> HIDE DEF pair
<1>2. pairs'[NewPair] = pair
  BY DEF pair
<1>3. TypeOK'
  <2>1. consumed \in Seq(DOMAIN pairs) => consumed \in Seq(DOMAIN pairs')
    BY <1>1
  <2> QED BY <1>1, <2>1 DEF IInv, TypeOK, ExchangeCode, CodesLeft, NoCall
<1>4. Reachable'
  BY <1>1 DEF IInv, Reachable, Live, ExchangeCode
<1>5. FamiliesKnown'
  BY <1>1, <1>2 DEF IInv, FamiliesKnown, Family, ExchangeCode
<1>6. CodesSpent'
  <2>1. /\ codes' = codes \ {q} /\ issued' = issued
        /\ q \in codes /\ q \in DOMAIN issued
    BY <1>1 DEF ExchangeCode, CodesLeft
  <2>2. \A n \in DOMAIN pairs : /\ pairs[n].code # q /\ pairs[n].code \in DOMAIN issued
                                /\ pairs[n].code \notin codes
                                /\ pairs[n].family # NewPair
    BY <1>1, <2>1 DEF IInv, CodesSpent, FamiliesKnown, Family
  <2>3. \A m, n \in DOMAIN pairs : (pairs[m].code = pairs[n].code)
                                     <=> (pairs[m].family = pairs[n].family)
    BY DEF IInv, CodesSpent, OneFamilyPerCode, Family
  <2>4. OneFamilyPerCode'
    BY <2>2, <2>3, <1>1, <1>2 DEF OneFamilyPerCode, Family
  <2> QED BY <2>1, <2>2, <2>4, <1>1, <1>2 DEF CodesSpent
<1>7. InFlight'
  BY DEF ExchangeCode, NoCall, InFlight
<1>8. OnlyNewestLives'
  BY <1>1, <1>2 DEF IInv, OnlyNewestLives, FamiliesKnown, Family, Live
<1>9. ReusedFamilyIsDead'
  <2>1. \A n \in Live : n \in DOMAIN pairs /\ pairs[n].family \notin reused
    BY DEF IInv, TypeOK, Live, ReusedFamilyIsDead, Family
  <2>2. Live' \subseteq Live \cup {NewPair} /\ reused' = reused
    BY <1>1 DEF Live, ExchangeCode
  <2>3. NewPair \notin reused
    BY <1>1 DEF IInv, FamiliesKnown
  <2> QED BY <2>1, <2>2, <2>3, <1>1, <1>2 DEF ReusedFamilyIsDead, Family
<1> QED BY <1>3, <1>4, <1>5, <1>6, <1>7, <1>8, <1>9 DEF IInv

\* The same for the exchange of a refresh token: the family is still active, so the next
\* pair joins it.
LEMMA RefreshMints ==
  ASSUME IInv, NEW scopes \in Scopes, ExchangeRefresh(scopes)
  PROVE  LET n == call.item
             old == pairs[n]
             pair == pairs'[NewPair]
         IN  /\ call = [kind |-> "refresh", item |-> n]
             /\ n \in DOMAIN pairs /\ n \in active /\ old \in PairRec
             /\ pairs' \in Seq(PairRec)
             /\ DOMAIN pairs' = DOMAIN pairs \cup {NewPair}
             /\ NewPair \in Nat \ {0} /\ NewPair \notin DOMAIN pairs
             /\ \A m \in DOMAIN pairs : pairs'[m] = pairs[m] /\ m \in Nat /\ m < NewPair
             /\ access' \subseteq (access \ {n}) \cup {NewPair}
             /\ refresh' \subseteq (refresh \ {n}) \cup {NewPair} /\ NewPair \in refresh'
             /\ tracked' = tracked \cup {NewPair}
             /\ pair.family = old.family /\ pair.code = old.code /\ pair.parent = n
             /\ pair.scopes = scopes /\ pair.client = old.client
             /\ pair.user = old.user /\ pair.role = old.role
<1> DEFINE n == call.item
           old == pairs[n]
           minting(fp) == [old EXCEPT !.scopes = scopes, !.fp = fp, !.family = old.family,
                                      !.parent = n]
<1>1. /\ call = [kind |-> "refresh", item |-> n]
      /\ n \in DOMAIN pairs /\ n \in active /\ old \in PairRec
  BY DEF IInv, TypeOK, ExchangeRefresh, InFlight
<1>2. PICK fp \in Nat : Mint(minting(fp), AccessLeft(n), RefreshLeft(n))
  <2>1. \A readable \in BOOLEAN : Fingerprint(old.user, readable) \in Nat
    BY <1>1 DEF Fingerprint, IInv, TypeOK, PairRec
  <2> QED BY <1>1, <2>1, ConstantsAssumption DEF ExchangeRefresh, ConstantsAssumption
<1> DEFINE pair == minting(fp)
<1>3. /\ pair \in PairRec
      /\ pair.family = old.family /\ pair.code = old.code /\ pair.parent = n
      /\ pair.scopes = scopes /\ pair.client = old.client
      /\ pair.user = old.user /\ pair.role = old.role
  BY <1>1 DEF PairRec, Scopes, IInv, TypeOK
<1>4. Mint(pair, AccessLeft(n), RefreshLeft(n))
  BY <1>2
<1> HIDE DEF minting, pair
<1>5. AccessLeft(n) \subseteq access \ {n} /\ RefreshLeft(n) \subseteq refresh \ {n}
  BY DEF AccessLeft, RefreshLeft, IInv, Reachable
<1>6. NewPair \in refresh'
  BY <1>4 DEF Mint
<1>7. AccessLeft(n) \in SUBSET access /\ RefreshLeft(n) \in SUBSET refresh
  BY <1>5
<1> QED BY <1>1, <1>3, <1>4, <1>5, <1>6, <1>7, MintFacts DEF IInv

LEMMA ExchangeRefreshStep ==
  ASSUME IInv, NEW scopes \in Scopes, ExchangeRefresh(scopes)
  PROVE  IInv'
<1> DEFINE n == call.item
           old == pairs[n]
           pair == pairs'[NewPair]
<1>1. /\ n \in DOMAIN pairs /\ n \in active /\ old \in PairRec
      /\ old.family \in DOMAIN pairs /\ old.family \notin reused
      /\ \A m \in DOMAIN pairs : Family(m) = old.family => m <= n
  BY DEF IInv, TypeOK, ExchangeRefresh, InFlight, FamiliesKnown, Family
<1>2. /\ pairs' \in Seq(PairRec)
      /\ DOMAIN pairs' = DOMAIN pairs \cup {NewPair}
      /\ NewPair \in Nat \ {0} /\ NewPair \notin DOMAIN pairs
      /\ \A m \in DOMAIN pairs : pairs'[m] = pairs[m] /\ m \in Nat /\ m < NewPair
      /\ access' \subseteq (access \ {n}) \cup {NewPair}
      /\ refresh' \subseteq (refresh \ {n}) \cup {NewPair}
      /\ tracked' = tracked \cup {NewPair}
      /\ pair.family = old.family /\ pair.code = old.code
  BY RefreshMints
<1> HIDE DEF pair
<1>3. pairs'[NewPair] = pair
  BY DEF pair
<1>4. TypeOK'
  <2>1. consumed' \in Seq(DOMAIN pairs)
    BY <1>1, GcConsumedType, AppendFacts DEF IInv, TypeOK, ExchangeRefresh
  <2>2. consumed' \in Seq(DOMAIN pairs')
    BY <2>1, <1>2
  <2> QED BY <1>2, <2>2 DEF IInv, TypeOK, ExchangeRefresh, NoCall
<1>5. Reachable'
  BY <1>2 DEF IInv, Reachable, Live, ExchangeRefresh
<1>6. FamiliesKnown'
  BY <1>1, <1>2, <1>3 DEF IInv, FamiliesKnown, Family, ExchangeRefresh
<1>7. CodesSpent'
  BY <1>1, <1>2, <1>3 DEF IInv, CodesSpent, OneFamilyPerCode, Family, ExchangeRefresh
<1>8. InFlight'
  BY DEF ExchangeRefresh, NoCall, InFlight
<1>9. Live' \subseteq (Live \ {n}) \cup {NewPair} /\ Live \subseteq DOMAIN pairs
  BY <1>2 DEF Live, IInv, TypeOK
<1>10. OnlyNewestLives'
  <2> SUFFICES ASSUME NEW k \in DOMAIN pairs', NEW m \in DOMAIN pairs',
                      pairs'[k].family = pairs'[m].family, k < m
               PROVE  k \notin Live'
    BY DEF OnlyNewestLives, Family, Live
  <2>1. CASE m = NewPair
    <3>1. k \in DOMAIN pairs /\ Family(k) = old.family
      BY <2>1, <1>2, <1>3 DEF Family
    <3>2. k <= n /\ k \in Nat /\ n \in Nat /\ k # NewPair
      BY <3>1, <1>1, <1>2
    <3>3. k # n => k \notin Live
      BY <3>1, <3>2, <1>1 DEF IInv, OnlyNewestLives, Family
    <3> QED BY <3>2, <3>3, <1>9
  <2>2. CASE m # NewPair
    <3>1. m \in DOMAIN pairs /\ k \in DOMAIN pairs /\ k # NewPair
      BY <2>2, <1>2
    <3>2. Family(k) = Family(m)
      BY <3>1, <1>2 DEF Family
    <3> QED BY <3>1, <3>2, <1>9 DEF IInv, OnlyNewestLives
  <2> QED BY <2>1, <2>2
<1>11. ReusedFamilyIsDead'
  <2>1. \A m \in Live : pairs[m].family \notin reused
    BY DEF IInv, ReusedFamilyIsDead, Family
  <2>2. reused' = reused
    BY DEF ExchangeRefresh
  <2> QED BY <2>1, <2>2, <1>1, <1>2, <1>3, <1>9 DEF ReusedFamilyIsDead, Family
<1> QED BY <1>4, <1>5, <1>6, <1>7, <1>8, <1>10, <1>11 DEF IInv

\* Steps that mint nothing and put nothing back in a table keep the invariant, as
\* long as a removed back-pointer takes its access token along.
LEMMA ShrinkingStep ==
  ASSUME IInv, TypeOK', InFlight', UNCHANGED <<issued, pairs, active, tracked, reused>>,
         codes' \subseteq codes, access' \subseteq access, refresh' \subseteq refresh,
         access' \subseteq backPtr'
  PROVE  IInv'
<1>1. Reachable'
  BY DEF IInv, Reachable, Live
<1>2. FamiliesKnown' /\ OneFamilyPerCode'
  BY DEF IInv, FamiliesKnown, CodesSpent, OneFamilyPerCode, Family
<1>3. CodesSpent'
  BY <1>2 DEF IInv, CodesSpent
<1>4. Live' \subseteq Live
  BY DEF Live
<1>5. OnlyNewestLives' /\ ReusedFamilyIsDead'
  BY <1>4 DEF IInv, OnlyNewestLives, ReusedFamilyIsDead, Family
<1> QED BY <1>1, <1>2, <1>3, <1>5 DEF IInv

LEMMA CompletePendingStep ==
  ASSUME IInv, NEW c \in Client, NEW u \in User, NEW s \in Scopes, CompletePending(c, u, s)
  PROVE  IInv'
<1> DEFINE code == [client |-> c, user |-> u, role |-> users[u].role,
                    scopes |-> s, pw |-> users[u].pw]
           q == Len(issued) + 1
<1>1. code \in CodeRec
  BY DEF CodeRec, Scopes, CompletePending, IInv, TypeOK
<1>2. issued \in Seq(CodeRec) /\ issued' = Append(issued, code)
  BY DEF CompletePending, IInv, TypeOK
<1> HIDE DEF code
<1>3. /\ issued' \in Seq(CodeRec)
      /\ DOMAIN issued' = DOMAIN issued \cup {q}
      /\ q \notin DOMAIN issued
  BY <1>1, <1>2, AppendFacts
<1>4. codes' \subseteq codes \cup {q}
  BY GcSubset DEF CompletePending
<1> HIDE DEF q
<1>5. /\ call = NoCall
      /\ UNCHANGED <<status, staleCodes, pairs, access, refresh, backPtr, active, tracked,
                     consumed, expired, call, users, reused>>
  BY DEF CompletePending, Idle
<1>6. TypeOK'
  BY <1>3, <1>4, <1>5 DEF IInv, TypeOK, NoCall
<1>7. CodesSpent' /\ FamiliesKnown'
  BY <1>3, <1>4, <1>5 DEF IInv, CodesSpent, OneFamilyPerCode, FamiliesKnown, Family
<1>8. Reachable' /\ InFlight'
  BY <1>5 DEF IInv, Reachable, Live, InFlight, NoCall
<1>9. OnlyNewestLives' /\ ReusedFamilyIsDead'
  BY <1>5 DEF IInv, OnlyNewestLives, ReusedFamilyIsDead, Family, Live
<1> QED BY <1>6, <1>7, <1>8, <1>9 DEF IInv

LEMMA PresentSpentStep ==
  ASSUME IInv, NEW n \in DOMAIN pairs, PresentSpent(n)
  PROVE  IInv'
<1> DEFINE killed == {m \in tracked : Family(m) = Family(n)}
<1>1. /\ access' = access \ killed /\ refresh' = refresh \ killed
      /\ backPtr' = backPtr \ killed /\ active' = active \ killed
      /\ tracked' = tracked \ killed
      /\ reused' = reused \cup {Family(n)}
      /\ call = NoCall
      /\ UNCHANGED <<status, minted, codes, staleCodes, consumed, expired, call, users>>
  BY DEF PresentSpent, RevokeFamily, Idle
<1>2. TypeOK'
  <2>1. pairs[n] \in PairRec
    BY DEF IInv, TypeOK
  <2>2. reused' \subseteq Nat
    BY <1>1, <2>1 DEF IInv, TypeOK, PairRec, Family
  <2>3. /\ access' \subseteq access /\ refresh' \subseteq refresh /\ backPtr' \subseteq backPtr
        /\ active' \subseteq active /\ tracked' \subseteq tracked
    BY <1>1
  <2>4. UNCHANGED <<status, issued, pairs, codes, staleCodes, consumed, expired, call, users>>
    BY <1>1 DEF minted
  <2> QED BY <2>2, <2>3, <2>4 DEF IInv, TypeOK
<1>3. Reachable'
  BY <1>1 DEF IInv, Reachable, Live
<1>4. FamiliesKnown' /\ CodesSpent'
  BY <1>1 DEF IInv, FamiliesKnown, CodesSpent, OneFamilyPerCode, Family, minted
<1>5. InFlight'
  BY <1>1 DEF InFlight, NoCall
<1>6. Live' \subseteq Live \ killed /\ Live \subseteq tracked
  BY <1>1 DEF Live, IInv, Reachable
<1>7. OnlyNewestLives'
  BY <1>1, <1>6 DEF IInv, OnlyNewestLives, Family, minted
<1>8. ReusedFamilyIsDead'
  BY <1>1, <1>6 DEF IInv, ReusedFamilyIsDead, Family, minted
<1> QED BY <1>2, <1>3, <1>4, <1>5, <1>7, <1>8 DEF IInv

LEMMA LoadStep ==
  ASSUME IInv, NEW n,
         \/ n \in codes /\ LoadCode(n)
         \/ n \in DOMAIN pairs /\ LoadRefresh(n)
  PROVE  IInv'
<1>1. CASE n \in codes /\ LoadCode(n)
  <2>1. TypeOK'
    BY <1>1 DEF IInv, TypeOK, LoadCode, Idle, NoCall, minted
  <2>2. InFlight'
    BY <1>1 DEF IInv, InFlight, LoadCode, Idle, NoCall
  <2> QED BY <1>1, <2>1, <2>2, ShrinkingStep DEF IInv, Reachable, LoadCode, minted
<1>2. CASE n \in DOMAIN pairs /\ LoadRefresh(n)
  <2>1. n \in Nat /\ n \in refresh /\ n \in active /\ n \in Live
    BY <1>2 DEF IInv, TypeOK, LoadRefresh, Reachable, Live
  <2>2. TypeOK'
    <3>1. refresh' \subseteq refresh /\ call' \in {NoCall, [kind |-> "refresh", item |-> n]}
          /\ UNCHANGED <<status, minted, codes, staleCodes, access, backPtr, active, tracked,
                         consumed, expired, users, reused>>
      BY <1>2 DEF LoadRefresh, Idle
    <3> QED BY <1>2, <2>1, <3>1 DEF IInv, TypeOK, NoCall, minted
  <2>3. \A m \in DOMAIN pairs : Family(m) = Family(n) => m <= n
    BY <1>2, <2>1 DEF IInv, TypeOK, OnlyNewestLives
  <2>4. Family(n) \notin reused
    BY <2>1 DEF IInv, ReusedFamilyIsDead
  <2>5. InFlight'
    BY <1>2, <2>1, <2>3, <2>4 DEF IInv, InFlight, LoadRefresh, Idle, NoCall, Family, minted
  <2> QED BY <1>2, <2>2, <2>5, ShrinkingStep DEF IInv, Reachable, LoadRefresh, minted
<1> QED BY <1>1, <1>2

\* Refusals and sign-outs only remove entries.
LEMMA RefuseOrRevokeStep ==
  ASSUME IInv, NEW n \in DOMAIN pairs,
         RefuseAccess(n) \/ RevokeAccess(n) \/ RevokeRefresh(n)
  PROVE  IInv'
<1>1. CASE RefuseAccess(n)
  BY <1>1, ShrinkingStep DEF RefuseAccess, IInv, TypeOK, Idle, NoCall, InFlight, Reachable,
                             minted
<1>2. CASE RevokeAccess(n)
  BY <1>2, ShrinkingStep DEF RevokeAccess, IInv, TypeOK, Idle, NoCall, InFlight, Reachable,
                             minted
<1>3. CASE RevokeRefresh(n)
  BY <1>3, ShrinkingStep DEF RevokeRefresh, IInv, TypeOK, Idle, NoCall, InFlight, Reachable,
                             minted
<1> QED BY <1>1, <1>2, <1>3

LEMMA PortalStep == ASSUME IInv, AdminStep PROVE IInv'
<1>1. CASE \E c \in Client : PopClient(c)
  BY <1>1, ShrinkingStep DEF PopClient, IInv, TypeOK, Status, InFlight, Reachable,
                             tables, minted, Family
<1>2. ASSUME NEW c \in Client, SweepAccess(c) PROVE IInv'
  BY <1>2, ShrinkingStep DEF SweepAccess, IInv, TypeOK, Status, InFlight, Reachable,
                             minted, Family
<1>3. ASSUME NEW c \in Client, SweepRefresh(c) PROVE IInv'
  BY <1>3, ShrinkingStep DEF SweepRefresh, IInv, TypeOK, Status, InFlight, Reachable,
                             minted, Family
<1>4. ASSUME NEW u \in User, NEW r \in Role \cup {NoRole}, ChangeRole(u, r) PROVE IInv'
  BY <1>4, ShrinkingStep DEF ChangeRole, IInv, TypeOK, InFlight, Reachable,
                             tables, minted, Family
<1>5. ASSUME NEW u \in User, ChangePassword(u) PROVE IInv'
  BY <1>5, ShrinkingStep DEF ChangePassword, IInv, TypeOK, InFlight, Reachable,
                             tables, minted, Family
<1> QED BY <1>1, <1>2, <1>3, <1>4, <1>5 DEF AdminStep

LEMMA ClockStep == ASSUME IInv, Clock PROVE IInv'
<1>1. ASSUME NEW k \in {"access", "refresh"}, NEW n \in DOMAIN pairs, Expire(<<k, n>>)
      PROVE  IInv'
  BY <1>1, ShrinkingStep, SMTT(30) DEF Expire, IInv, TypeOK, Token, InFlight, Reachable,
                             tables, minted, Family
<1>2. ASSUME NEW q \in codes, ExpireCode(q) PROVE IInv'
  BY <1>2, ShrinkingStep DEF ExpireCode, IInv, TypeOK, InFlight, Reachable,
                             tables, minted, Family
<1> QED BY <1>1, <1>2 DEF Clock

LEMMA NextIInv == IInv /\ [Next]_vars => IInv'
<1> SUFFICES ASSUME IInv, [Next]_vars PROVE IInv'
  OBVIOUS
<1>1. CASE LoopStep
  <2>1. ASSUME NEW c \in Client, RegisterClient(c) PROVE IInv'
    BY <2>1, ShrinkingStep DEF RegisterClient, IInv, TypeOK, Status, InFlight, Reachable,
                               tables, minted, Family
  <2>2. CASE RefuseExchange
    BY <2>2, ShrinkingStep DEF RefuseExchange, IInv, TypeOK, NoCall, InFlight, Reachable,
                               tables, minted
  <2>3. ASSUME NEW n \in DOMAIN pairs,
               PresentSpent(n) \/ LoadRefresh(n) \/ RefuseAccess(n) \/ RevokeAccess(n)
                 \/ RevokeRefresh(n)
        PROVE  IInv'
    BY <2>3, PresentSpentStep, LoadStep, RefuseOrRevokeStep
  <2>4. CASE \E s \in Scopes : ExchangeRefresh(s)
    BY <2>4, ExchangeRefreshStep
  <2>5. CASE \E c \in Client, u \in User, s \in Scopes : CompletePending(c, u, s)
    BY <2>5, CompletePendingStep
  <2>6. CASE \E q \in codes : LoadCode(q)
    BY <2>6, LoadStep
  <2> QED BY <1>1, <2>1, <2>2, <2>3, <2>4, <2>5, <2>6, ExchangeCodeStep DEF LoopStep
<1>2. CASE UNCHANGED vars
  BY <1>2, ShrinkingStep DEF vars, IInv, TypeOK, InFlight, Reachable, Family
<1> QED BY <1>1, <1>2, PortalStep, ClockStep DEF Next

-----------------------------------------------------------------------------
(* Scopes along a chain *)

\* The steps that mint nothing leave the pairs alone, and codes are only ever appended.
LEMMA OnlyExchangesMint ==
  ASSUME TypeOK, [Next]_vars, ~ExchangeCode, ~\E s \in Scopes : ExchangeRefresh(s)
  PROVE  /\ pairs' = pairs
         /\ DOMAIN issued \subseteq DOMAIN issued'
         /\ \A q \in DOMAIN issued : issued'[q] = issued[q]
<1>1. ASSUME NEW c \in Client, NEW u \in User, NEW s \in Scopes, CompletePending(c, u, s)
      PROVE  /\ pairs' = pairs
             /\ DOMAIN issued \subseteq DOMAIN issued'
             /\ \A q \in DOMAIN issued : issued'[q] = issued[q]
  <2> DEFINE code == [client |-> c, user |-> u, role |-> users[u].role,
                      scopes |-> s, pw |-> users[u].pw]
  <2>1. code \in CodeRec
    BY <1>1 DEF CodeRec, Scopes, CompletePending, TypeOK
  <2>2. issued \in Seq(CodeRec) /\ issued' = Append(issued, code) /\ pairs' = pairs
    BY <1>1 DEF CompletePending, TypeOK
  <2> HIDE DEF code
  <2> QED BY <2>1, <2>2, AppendFacts
<1>2. CASE UNCHANGED <<issued, pairs>>
  BY <1>2
<1>3. CASE LoopStep
  BY <1>1, <1>2, <1>3 DEF LoopStep, RegisterClient, LoadCode, PresentSpent, LoadRefresh,
       RefuseExchange, RefuseAccess, RevokeAccess, RevokeRefresh, minted
<1>4. CASE AdminStep
  BY <1>2, <1>4 DEF AdminStep, PopClient, SweepAccess, SweepRefresh, ChangeRole,
       ChangePassword, minted
<1>5. CASE Clock \/ UNCHANGED vars
  BY <1>2, <1>5 DEF Clock, Expire, ExpireCode, vars, minted
<1> QED BY <1>3, <1>4, <1>5 DEF Next

\* A pair was refreshed from a pair that exists.
ParentsKnown ==
  \A n \in DOMAIN pairs : pairs[n].parent # 0 => pairs[n].parent \in DOMAIN pairs

\* What a pair may do was allowed by the code and by the pair it stems from, and neither is
\* ever rewritten.
LEMMA WithinGrantStep ==
  ASSUME IInv, ParentsKnown, WithinGrant, [Next]_vars
  PROVE  ParentsKnown' /\ WithinGrant'
<1> USE DEF WithinGrant, ParentsKnown
<1>1. \A n \in DOMAIN pairs : n \in Nat /\ n # 0
  BY DEF IInv, TypeOK
<1>2. CASE ExchangeCode
  <2> DEFINE q == call.item
             pair == pairs'[NewPair]
  <2>1. /\ q \in DOMAIN issued
        /\ DOMAIN pairs' = DOMAIN pairs \cup {NewPair}
        /\ NewPair \notin DOMAIN pairs
        /\ \A n \in DOMAIN pairs : pairs'[n] = pairs[n]
        /\ pair.code = q /\ pair.parent = 0
        /\ pair.scopes = issued[q].scopes /\ pair.client = issued[q].client
        /\ pair.user = issued[q].user /\ pair.role = issued[q].role
    BY <1>2, CodeMints
  <2>2. issued' = issued
    BY <1>2 DEF ExchangeCode
  <2> HIDE DEF pair, q
  <2>3. pairs'[NewPair] = pair
    BY DEF pair
  <2> QED BY <2>1, <2>2, <2>3
<1>3. ASSUME NEW s \in Scopes, ExchangeRefresh(s) PROVE ParentsKnown' /\ WithinGrant'
  <2> DEFINE n == call.item
             old == pairs[n]
             pair == pairs'[NewPair]
  <2>1. /\ n \in DOMAIN pairs
        /\ DOMAIN pairs' = DOMAIN pairs \cup {NewPair}
        /\ NewPair \notin DOMAIN pairs
        /\ \A m \in DOMAIN pairs : pairs'[m] = pairs[m]
        /\ pair.code = old.code /\ pair.parent = n
        /\ pair.scopes = s /\ pair.client = old.client
        /\ pair.user = old.user /\ pair.role = old.role
    BY <1>3, RefreshMints
  <2>2. issued' = issued /\ s \subseteq pairs[n].scopes
    BY <1>3 DEF ExchangeRefresh, ScopesHeld
  <2> HIDE DEF pair, n
  <2>3. pairs'[NewPair] = pair
    BY DEF pair
  <2> QED BY <2>1, <2>2, <2>3, <1>1
<1>4. CASE ~ExchangeCode /\ ~\E s \in Scopes : ExchangeRefresh(s)
  BY <1>4, OnlyExchangesMint DEF IInv
<1> QED BY <1>2, <1>3, <1>4

-----------------------------------------------------------------------------
(* The limits of the tables *)

\* A set of numbers that is not empty has a least one.
LEMMA LeastExists ==
  ASSUME NEW S \in SUBSET Nat, S # {}
  PROVE  \E n \in S : \A m \in S : n <= m
<1>1. PICK n \in S : \A m \in S : ~(<<m, n>> \in OpToRel(<, Nat))
  BY NatLessThanWellFounded, WFMin
<1>2. \A m \in S : ~(m < n)
  BY <1>1 DEF OpToRel
<1> QED BY <1>2

\* One more element, one more at most to count.
LEMMA AddOne ==
  ASSUME NEW S, IsFiniteSet(S), NEW x
  PROVE  /\ IsFiniteSet(S \cup {x})
         /\ Cardinality(S) \in Nat /\ Cardinality(S \cup {x}) \in Nat
         /\ Cardinality(S \cup {x}) <= Cardinality(S) + 1
<1>1. IsFiniteSet(S \cup {x})
  BY FS_AddElement
<1>2. Cardinality(S) \in Nat /\ Cardinality(S \cup {x}) \in Nat
  BY <1>1, FS_CardinalityType
<1>3. \/ Cardinality(S \cup {x}) = Cardinality(S)
      \/ Cardinality(S \cup {x}) = Cardinality(S) + 1
  BY FS_AddElement, Zenon
<1> QED BY <1>1, <1>2, <1>3

\* _gc makes room for one more entry: after it fewer than limit entries are left.  The
\* survivors are the oldest of them and some of the fewer than limit - 1 after it.
LEMMA GcMakesRoom ==
  ASSUME NEW S \in SUBSET Nat, IsFiniteSet(S), NEW l \in Nat \ {0}, NEW x
  PROVE  Cardinality(Gc(S, l) \cup {x}) <= l
<1> DEFINE G == Gc(S, l)
           Younger(n) == {m \in S : m > n}
<1>1. IsFiniteSet(G) /\ G \in SUBSET Nat
  BY GcSubset, FS_Subset
<1>2. Cardinality(G) \in Nat /\ Cardinality(G) <= l - 1
  <2>1. CASE G = {}
    BY <2>1, FS_EmptySet
  <2>2. CASE G # {}
    <3>1. PICK n \in G : \A m \in G : n <= m
      BY <1>1, <2>2, LeastExists
    <3>2. n \in Nat /\ Cardinality(Younger(n)) < l - 1
      BY <1>1, <3>1 DEF Gc
    <3>3. IsFiniteSet(Younger(n)) /\ Cardinality(Younger(n)) \in Nat
      BY FS_Subset, FS_CardinalityType
    <3>4. G \subseteq Younger(n) \cup {n}
      BY <1>1, <3>1, GcSubset
    <3> HIDE DEF G, Younger
    <3>5. /\ IsFiniteSet(Younger(n) \cup {n})
          /\ Cardinality(Younger(n) \cup {n}) <= Cardinality(Younger(n)) + 1
          /\ Cardinality(Younger(n) \cup {n}) \in Nat
      BY <3>3, AddOne
    <3>6. Cardinality(G) <= Cardinality(Younger(n) \cup {n})
      BY <3>4, <3>5, FS_Subset
    <3>7. Cardinality(G) \in Nat
      BY <1>1, FS_CardinalityType
    <3> QED BY <3>2, <3>3, <3>5, <3>6, <3>7
  <2> QED BY <2>1, <2>2
<1> HIDE DEF G
<1>3. Cardinality(G \cup {x}) <= Cardinality(G) + 1 /\ Cardinality(G \cup {x}) \in Nat
  BY <1>1, AddOne
<1> QED BY <1>2, <1>3 DEF G

\* The tables are finite sets of numbers.
LEMMA TablesFinite ==
  ASSUME TypeOK
  PROVE  /\ IsFiniteSet(codes) /\ codes \subseteq Nat
         /\ IsFiniteSet(access) /\ access \subseteq Nat
         /\ IsFiniteSet(refresh) /\ refresh \subseteq Nat
         /\ Cardinality(codes) \in Nat /\ Cardinality(access) \in Nat
         /\ Cardinality(refresh) \in Nat /\ Len(consumed) \in Nat
<1>1. /\ DOMAIN issued = 1 .. Len(issued) /\ Len(issued) \in Nat
      /\ DOMAIN pairs = 1 .. Len(pairs) /\ Len(pairs) \in Nat
      /\ Len(consumed) \in Nat
  BY DEF TypeOK
<1>2. IsFiniteSet(DOMAIN issued) /\ IsFiniteSet(DOMAIN pairs)
  BY <1>1, FS_Interval
<1>3. /\ codes \in SUBSET DOMAIN issued /\ access \in SUBSET DOMAIN pairs
      /\ refresh \in SUBSET DOMAIN pairs
  BY DEF TypeOK
<1>4. IsFiniteSet(codes) /\ IsFiniteSet(access) /\ IsFiniteSet(refresh)
  BY <1>2, <1>3, FS_Subset
<1>5. codes \subseteq Nat /\ access \subseteq Nat /\ refresh \subseteq Nat
  BY <1>1, <1>3
<1> QED BY <1>1, <1>4, <1>5, FS_CardinalityType

\* A table that only loses entries stays within its limit.
LEMMA SmallerTables ==
  ASSUME TypeOK, TablesBounded, codes' \subseteq codes, access' \subseteq access,
         refresh' \subseteq refresh, consumed' = consumed
  PROVE  TablesBounded'
<1>1. /\ Cardinality(codes') <= Cardinality(codes) /\ Cardinality(codes') \in Nat
      /\ Cardinality(access') <= Cardinality(access) /\ Cardinality(access') \in Nat
      /\ Cardinality(refresh') <= Cardinality(refresh) /\ Cardinality(refresh') \in Nat
  BY TablesFinite, FS_Subset, FS_CardinalityType
<1> QED BY <1>1, TablesFinite, ConstantsAssumption DEF TablesBounded, ConstantsAssumption

\* The memory of spent tokens makes room the same way.
LEMMA GcConsumedBounded ==
  ASSUME TypeOK, TablesBounded
  PROVE  Len(GcConsumed) \in Nat /\ Len(GcConsumed) < MaxRefresh
<1>1. consumed \in Seq(DOMAIN pairs) /\ Len(consumed) \in Nat /\ Len(consumed) <= MaxRefresh
  BY DEF TypeOK, TablesBounded
<1>2. CASE Len(consumed) >= MaxRefresh
  <2>1. /\ Len(consumed) = MaxRefresh /\ Len(consumed) - MaxRefresh + 2 = 2
        /\ MaxRefresh \in Nat \ {0}
    BY <1>1, <1>2, ConstantsAssumption DEF ConstantsAssumption
  <2>2. Len(SubSeq(consumed, 2, Len(consumed))) = MaxRefresh - 1
    BY <1>1, <2>1
  <2> QED BY <1>2, <2>1, <2>2 DEF GcConsumed
<1>3. CASE ~(Len(consumed) >= MaxRefresh)
  BY <1>1, <1>3, ConstantsAssumption DEF GcConsumed, ConstantsAssumption
<1> QED BY <1>2, <1>3

LEMMA TablesBoundedStep ==
  ASSUME IInv, TablesBounded, [Next]_vars
  PROVE  TablesBounded'
<1>1. TypeOK
  BY DEF IInv
<1>2. MaxCodes \in Nat \ {0} /\ MaxAccess \in Nat \ {0} /\ MaxRefresh \in Nat \ {0}
  BY ConstantsAssumption DEF ConstantsAssumption
<1>3. ASSUME NEW c \in Client, NEW u \in User, NEW s \in Scopes, CompletePending(c, u, s)
      PROVE  TablesBounded'
  <2>1. /\ codes' = Gc(codes, MaxCodes) \cup {Len(issued) + 1}
        /\ access' = access /\ refresh' = refresh /\ consumed' = consumed
    BY <1>3 DEF CompletePending
  <2>2. Cardinality(codes') <= MaxCodes
    BY <1>1, <1>2, <2>1, TablesFinite, GcMakesRoom
  <2> QED BY <2>1, <2>2 DEF TablesBounded
<1>4. CASE ExchangeCode
  <2>1. /\ access' = Gc(access, MaxAccess) \cup {NewPair}
        /\ refresh' = Gc(refresh, MaxRefresh) \cup {NewPair}
        /\ codes' \subseteq codes /\ consumed' = consumed
    BY <1>4 DEF ExchangeCode, Mint, CodesLeft
  <2>2. Cardinality(access') <= MaxAccess /\ Cardinality(refresh') <= MaxRefresh
    BY <1>1, <1>2, <2>1, TablesFinite, GcMakesRoom
  <2>3. Cardinality(codes') <= Cardinality(codes) /\ Cardinality(codes') \in Nat
    BY <1>1, <2>1, TablesFinite, FS_Subset, FS_CardinalityType
  <2> QED BY <1>1, <1>2, <2>1, <2>2, <2>3, TablesFinite DEF TablesBounded
<1>5. ASSUME NEW s \in Scopes, ExchangeRefresh(s)
      PROVE  TablesBounded'
  <2> DEFINE n == call.item
             A == AccessLeft(n)
             R == RefreshLeft(n)
  <2>1. /\ access' = Gc(A, MaxAccess) \cup {NewPair}
        /\ refresh' = Gc(R, MaxRefresh) \cup {NewPair}
        /\ codes' = codes
        /\ consumed' \in {Append(GcConsumed, n), consumed}
        /\ n \in DOMAIN pairs
    BY <1>1, <1>5 DEF ExchangeRefresh, Mint, TypeOK
  <2>2. A \in SUBSET access /\ R \in SUBSET refresh
    BY DEF AccessLeft, RefreshLeft
  <2>3. /\ IsFiniteSet(A) /\ A \in SUBSET Nat
        /\ IsFiniteSet(R) /\ R \in SUBSET Nat
    BY <1>1, <2>2, TablesFinite, FS_Subset
  <2> HIDE DEF A, R, n
  <2>4. Cardinality(access') <= MaxAccess /\ Cardinality(refresh') <= MaxRefresh
    BY <1>2, <2>1, <2>3, GcMakesRoom
  <2>5. Len(consumed') <= MaxRefresh
    <3>1. Len(Append(GcConsumed, n)) = Len(GcConsumed) + 1
      BY <1>1, <2>1, GcConsumedType
    <3> QED BY <1>1, <1>2, <2>1, <3>1, GcConsumedBounded DEF TablesBounded
  <2> QED BY <2>1, <2>4, <2>5 DEF TablesBounded
<1>6. CASE \E c \in Client : RegisterClient(c)
  BY <1>1, <1>6, SmallerTables DEF RegisterClient, tables
<1>7. CASE \E q \in codes : LoadCode(q)
  BY <1>1, <1>7, SmallerTables DEF LoadCode
<1>8. CASE \E n \in DOMAIN pairs : PresentSpent(n) \/ LoadRefresh(n)
  BY <1>1, <1>8, SmallerTables DEF PresentSpent, RevokeFamily, LoadRefresh
<1>9. CASE RefuseExchange
  BY <1>1, <1>9, SmallerTables DEF RefuseExchange, tables
<1>10. CASE \E n \in DOMAIN pairs : RefuseAccess(n) \/ RevokeAccess(n) \/ RevokeRefresh(n)
  BY <1>1, <1>10, SmallerTables DEF RefuseAccess, RevokeAccess, RevokeRefresh
<1>11. CASE AdminStep
  BY <1>1, <1>11, SmallerTables DEF AdminStep, PopClient, SweepAccess, SweepRefresh,
       ChangeRole, ChangePassword, tables
<1>12. CASE Clock \/ UNCHANGED vars
  BY <1>1, <1>12, SmallerTables DEF Clock, Expire, ExpireCode, vars, tables
<1> QED BY <1>3, <1>4, <1>5, <1>6, <1>7, <1>8, <1>9, <1>10, <1>11, <1>12 DEF Next, LoopStep

-----------------------------------------------------------------------------
(* A forgotten client *)

Forgotten(c) == status[c] \in {"popped", "swept", "revoked"}

\* What a step may not do for a client that was forgotten and is not being served.
GainsNothing(c) ==
  /\ ~Serving(c)'
  /\ \A n \in access' \cup refresh' : pairs'[n].client = c => n \in Live

\* A step that mints nothing and begins no request of c gives c nothing.
LEMMA QuietStep ==
  ASSUME NEW c, ~Serving(c), UNCHANGED <<issued, pairs>>, call' \in {call, NoCall},
         access' \subseteq access, refresh' \subseteq refresh
  PROVE  GainsNothing(c)
BY DEF GainsNothing, Serving, NoCall, Live

LEMMA ForgottenStep ==
  ASSUME IInv, [Next]_vars, NEW c \in Client, Forgotten(c), ~Serving(c)
  PROVE  GainsNothing(c)
<1>1. ASSUME NEW d \in Client, NEW u \in User, NEW s \in Scopes, CompletePending(d, u, s)
      PROVE  GainsNothing(c)
  BY <1>1 DEF CompletePending, Idle, NoCall, GainsNothing, Serving, Live
<1>2. ASSUME NEW q \in codes, LoadCode(q)
      PROVE  GainsNothing(c)
  <2>1. issued[q].client # c
    BY <1>2 DEF LoadCode, KnownClient, Registered, Forgotten
  <2>2. /\ call' \in {call, [kind |-> "code", item |-> q]}
        /\ access' = access /\ refresh' = refresh /\ issued' = issued /\ pairs' = pairs
    BY <1>2 DEF LoadCode, minted
  <2> QED BY <2>1, <2>2 DEF GainsNothing, Serving, Live
<1>3. ASSUME NEW n \in DOMAIN pairs, LoadRefresh(n)
      PROVE  GainsNothing(c)
  <2>1. pairs[n].client # c
    BY <1>3 DEF LoadRefresh, KnownClient, Registered, Forgotten
  <2>2. /\ call' \in {call, [kind |-> "refresh", item |-> n]}
        /\ access' = access /\ refresh' \subseteq refresh /\ issued' = issued /\ pairs' = pairs
    BY <1>3 DEF LoadRefresh, minted
  <2> QED BY <2>1, <2>2 DEF GainsNothing, Serving, Live
<1>4. ASSUME access' \cup refresh' \subseteq Live \cup {NewPair}, call' = NoCall,
             Live \subseteq DOMAIN pairs,
             \A n \in DOMAIN pairs : pairs'[n] = pairs[n], pairs'[NewPair].client # c
      PROVE  GainsNothing(c)
  BY <1>4 DEF GainsNothing, Serving, NoCall
<1>5. Live \subseteq DOMAIN pairs
  BY DEF Live, IInv, TypeOK
<1>6. CASE ExchangeCode
  <2>1. pairs'[NewPair].client = issued[call.item].client /\ call.kind = "code"
    BY <1>6, CodeMints
  <2>2. /\ \A n \in DOMAIN pairs : pairs'[n] = pairs[n]
        /\ access' \subseteq access \cup {NewPair} /\ refresh' \subseteq refresh \cup {NewPair}
    BY <1>6, CodeMints
  <2>3. call' = NoCall
    BY <1>6 DEF ExchangeCode
  <2> QED BY <1>4, <1>5, <2>1, <2>2, <2>3 DEF Serving, Live
<1>7. ASSUME NEW s \in Scopes, ExchangeRefresh(s)
      PROVE  GainsNothing(c)
  <2>1. pairs'[NewPair].client = pairs[call.item].client /\ call.kind = "refresh"
    BY <1>7, RefreshMints
  <2>2. /\ \A n \in DOMAIN pairs : pairs'[n] = pairs[n]
        /\ access' \subseteq access \cup {NewPair} /\ refresh' \subseteq refresh \cup {NewPair}
    BY <1>7, RefreshMints
  <2>3. call' = NoCall
    BY <1>7 DEF ExchangeRefresh
  <2> QED BY <1>4, <1>5, <2>1, <2>2, <2>3 DEF Serving, Live
<1>8. CASE \/ \E d \in Client : RegisterClient(d)
           \/ \E n \in DOMAIN pairs : PresentSpent(n) \/ RefuseAccess(n) \/ RevokeAccess(n)
                                        \/ RevokeRefresh(n)
           \/ RefuseExchange
  BY <1>8, QuietStep DEF RegisterClient, PresentSpent, RevokeFamily, RefuseAccess,
       RevokeAccess, RevokeRefresh, RefuseExchange, tables, minted
<1>9. CASE AdminStep
  BY <1>9, QuietStep DEF AdminStep, PopClient, SweepAccess, SweepRefresh, ChangeRole,
       ChangePassword, tables, minted
<1>10. CASE Clock \/ UNCHANGED vars
  BY <1>10, QuietStep DEF Clock, Expire, ExpireCode, vars, tables, minted
<1> QED BY <1>1, <1>2, <1>3, <1>6, <1>7, <1>8, <1>9, <1>10 DEF Next, LoopStep

-----------------------------------------------------------------------------
(* The refinement of GrantChain *)

Grants == 1..CodeBound

\* The tokens of a grant that could still be exchanged, as Usable looks for them.
Held == [g \in Grants |->
           {n \in DOMAIN pairs :
              /\ pairs[n].code = g
              /\ n \in refresh \/ call = [kind |-> "refresh", item |-> n]}]

UsableBar == [g \in Grants |-> Usable(g)]

\* There is one of them at most, the newest of its family.
LEMMA HeldIsOne ==
  ASSUME IInv, NEW g \in Grants, NEW m \in Held[g], NEW n \in Held[g]
  PROVE  m = n
<1> SUFFICES ASSUME m # n PROVE FALSE
  OBVIOUS
<1>1. /\ m \in DOMAIN pairs /\ n \in DOMAIN pairs /\ m \in Nat /\ n \in Nat
      /\ Family(m) = Family(n)
  BY DEF Held, IInv, TypeOK, CodesSpent, OneFamilyPerCode
<1>2. ASSUME NEW a \in Held[g], NEW b \in Held[g], a \in Nat, b \in Nat, a < b,
             Family(a) = Family(b)
      PROVE  FALSE
  <2>1. a \in DOMAIN pairs /\ b \in DOMAIN pairs /\ a \notin Live
    BY <1>2 DEF Held, IInv, OnlyNewestLives
  <2>2. call = [kind |-> "refresh", item |-> a]
    BY <2>1 DEF Held, Live
  <2>3. b <= a
    BY <1>2, <2>1, <2>2 DEF IInv, InFlight
  <2> QED BY <1>2, <2>3
<1>3. m < n \/ n < m
  BY <1>1
<1> QED BY <1>1, <1>2, <1>3

\* What Usable picks is the one token held, or 0.
UsableIsHeld ==
  \A g \in Grants : /\ \A n \in Held[g] : UsableBar[g] = n
                    /\ Held[g] = {} => UsableBar[g] = 0

LEMMA UsableFacts == IInv => UsableIsHeld
<1> SUFFICES ASSUME IInv, NEW g \in Grants
             PROVE  /\ \A n \in Held[g] : UsableBar[g] = n
                    /\ Held[g] = {} => UsableBar[g] = 0
  BY DEF UsableIsHeld
<1>1. UsableBar[g] = IF Held[g] = {} THEN 0
                     ELSE CHOOSE n \in Held[g] : \A m \in Held[g] : m <= n
  BY DEF Usable, UsableBar, Held
<1>2. ASSUME NEW n \in Held[g] PROVE UsableBar[g] = n
  <2>1. Held[g] = {n}
    BY HeldIsOne
  <2>2. n \in Nat
    BY DEF Held, IInv, TypeOK
  <2> QED BY <1>1, <2>1, <2>2
<1> QED BY <1>1, <1>2

\* The codes handed out stay within the bound of the exploration, so that each is a grant.
CodesAreGrants == Len(issued) <= CodeBound

LEMMA CodesAreGrantsStep ==
  ASSUME IInv, CodesAreGrants, [Next]_vars
  PROVE  CodesAreGrants'
<1>1. ASSUME NEW c \in Client, NEW u \in User, NEW s \in Scopes, CompletePending(c, u, s)
      PROVE  CodesAreGrants'
  <2>1. issued \in Seq(CodeRec) /\ \E e : issued' = Append(issued, e)
    BY <1>1 DEF CompletePending, IInv, TypeOK
  <2>2. Len(issued') = Len(issued) + 1
    BY <2>1
  <2>3. Len(issued) + 1 <= CodeBound
    BY <1>1 DEF CompletePending
  <2> QED BY <2>2, <2>3 DEF CodesAreGrants
<1>2. CASE issued' = issued
  BY <1>2 DEF CodesAreGrants
<1>3. CASE LoopStep
  BY <1>1, <1>2, <1>3 DEF LoopStep, RegisterClient, LoadCode, ExchangeCode, PresentSpent,
       LoadRefresh, ExchangeRefresh, RefuseExchange, RefuseAccess, RevokeAccess,
       RevokeRefresh, minted
<1>4. CASE AdminStep
  BY <1>2, <1>4 DEF AdminStep, PopClient, SweepAccess, SweepRefresh, ChangeRole,
       ChangePassword, minted
<1>5. CASE Clock \/ UNCHANGED vars
  BY <1>2, <1>5 DEF Clock, Expire, ExpireCode, vars, minted
<1> QED BY <1>3, <1>4, <1>5 DEF Next

\* Grants whose chain ends in a step.
Ends == {g \in Grants : UsableBar'[g] = 0}

\* A chain that gains no token goes on with the one it has, or ends.
LEMMA GoesOnOrEnds ==
  ASSUME IInv, IInv', NEW g \in Grants, Held'[g] \subseteq Held[g]
  PROVE  UsableBar'[g] \in {0, UsableBar[g]}
<1>1. UsableIsHeld /\ UsableIsHeld'
  BY UsableFacts, PTL
<1> QED BY <1>1 DEF UsableIsHeld

\* A step that mints nothing is a step of the promise in which some chains may end.
LEMMA EndRefined ==
  ASSUME IInv, IInv', pairs' = pairs, \A g \in Grants : Held'[g] \subseteq Held[g]
  PROVE  Chain!Next
<1>1. \A g \in Grants : UsableBar'[g] = IF g \in Ends THEN 0 ELSE UsableBar[g]
  BY GoesOnOrEnds DEF Ends
<1>2. Chain!End(Ends)
  BY <1>1 DEF Chain!End, Chain!Ended, Grants, UsableBar
<1> QED BY <1>2 DEF Chain!Next, Ends, Grants

\* What a step that mints does to the chains: one gets the new token.
LEMMA MintRefined ==
  ASSUME IInv, IInv', NEW g \in Grants, NewPair \in Held'[g],
         \A h \in Grants \ {g} : Held'[h] \subseteq Held[h]
  PROVE  UsableBar' =
           [Chain!Ended(Ends \ {g}) EXCEPT ![g] = Len(pairs) + 1]
<1>1. \A h \in Grants \ {g} : UsableBar'[h] = IF h \in Ends \ {g} THEN 0 ELSE UsableBar[h]
  BY GoesOnOrEnds DEF Ends
<1>2. UsableBar'[g] = Len(pairs) + 1
  <2>1. UsableIsHeld'
    BY UsableFacts, PTL
  <2> QED BY <2>1 DEF UsableIsHeld, NewPair
<1> QED BY <1>1, <1>2 DEF Chain!Ended, Grants, UsableBar

\* Exchanging a code opens the chain of its grant.
LEMMA ExchangeCodeRefined ==
  ASSUME IInv, IInv', CodesAreGrants, ExchangeCode
  PROVE  Chain!Next
<1> DEFINE q == call.item
<1>1. /\ q \in codes /\ q \in DOMAIN issued
      /\ pairs' \in Seq(PairRec)
      /\ DOMAIN pairs' = DOMAIN pairs \cup {NewPair}
      /\ NewPair \in Nat \ {0} /\ NewPair \notin DOMAIN pairs
      /\ \A n \in DOMAIN pairs : pairs'[n] = pairs[n]
      /\ refresh' \subseteq refresh \cup {NewPair} /\ NewPair \in refresh'
      /\ pairs'[NewPair].code = q
  BY CodeMints
<1>2. q \in Grants
  <2>1. q \in 1 .. Len(issued) /\ Len(issued) \in Nat
    BY <1>1 DEF IInv, TypeOK
  <2> QED BY <2>1, ConstantsAssumption DEF CodesAreGrants, Grants, ConstantsAssumption
<1>3. call' = NoCall
  BY DEF ExchangeCode
<1> HIDE DEF q
<1>4. NewPair \in Held'[q]
  BY <1>1, <1>2 DEF Held
<1>5. \A h \in Grants \ {q} : Held'[h] \subseteq Held[h]
  BY <1>1, <1>3 DEF Held, NoCall
<1>6. UsableBar' = [Chain!Ended(Ends \ {q}) EXCEPT ![q] = Len(pairs) + 1]
  BY <1>2, <1>4, <1>5, MintRefined
<1>7. q \notin {pairs[n].code : n \in DOMAIN pairs}
  BY <1>1 DEF IInv, CodesSpent
<1>8. {pairs[n].code : n \in DOMAIN pairs}' = {pairs[n].code : n \in DOMAIN pairs} \cup {q}
  BY <1>1
<1>9. Len(pairs') = Len(pairs) + 1
  BY DEF ExchangeCode, Mint, IInv, TypeOK
<1>10. PICK g \in Grants, dead \in SUBSET Grants : g = q /\ dead = Ends \ {q}
  BY <1>2 DEF Ends
<1>11. Chain!Open(g, dead)
  BY <1>6, <1>7, <1>8, <1>9, <1>10 DEF Chain!Open, Grants, UsableBar
<1> QED BY <1>10, <1>11 DEF Chain!Next, Grants

\* Exchanging a refresh token rotates the chain: the token was the usable one.
LEMMA ExchangeRefreshRefined ==
  ASSUME IInv, IInv', CodesAreGrants, NEW s \in Scopes, ExchangeRefresh(s)
  PROVE  Chain!Next
<1> DEFINE n == call.item
           g == pairs[n].code
<1>1. /\ call = [kind |-> "refresh", item |-> n]
      /\ n \in DOMAIN pairs
      /\ DOMAIN pairs' = DOMAIN pairs \cup {NewPair}
      /\ NewPair \in Nat \ {0} /\ NewPair \notin DOMAIN pairs
      /\ \A m \in DOMAIN pairs : pairs'[m] = pairs[m] /\ m \in Nat
      /\ refresh' \subseteq refresh \cup {NewPair} /\ NewPair \in refresh'
      /\ pairs'[NewPair].code = g
  BY RefreshMints
<1>2. g \in Grants
  <2>1. g \in 1 .. Len(issued) /\ Len(issued) \in Nat
    BY <1>1 DEF IInv, TypeOK, CodesSpent
  <2> QED BY <2>1, ConstantsAssumption DEF CodesAreGrants, Grants, ConstantsAssumption
<1>3. call' = NoCall
  BY DEF ExchangeRefresh
<1>4. n # 0 /\ n \in Held[g]
  BY <1>1, <1>2 DEF Held, IInv, TypeOK
<1> HIDE DEF g, n
<1>5. NewPair \in Held'[g]
  BY <1>1, <1>2 DEF Held
<1>6. \A h \in Grants \ {g} : Held'[h] \subseteq Held[h]
  BY <1>1, <1>3 DEF Held, NoCall
<1>7. UsableBar' = [Chain!Ended(Ends \ {g}) EXCEPT ![g] = Len(pairs) + 1]
  BY <1>2, <1>5, <1>6, MintRefined
<1>8. UsableBar[g] # 0
  BY <1>2, <1>4, UsableFacts DEF UsableIsHeld
<1>9. {pairs[m].code : m \in DOMAIN pairs}' = {pairs[m].code : m \in DOMAIN pairs}
  BY <1>1 DEF g
<1>10. Len(pairs') = Len(pairs) + 1
  <2>1. pairs \in Seq(PairRec) /\ \E e : pairs' = Append(pairs, e)
    BY DEF ExchangeRefresh, Mint, IInv, TypeOK
  <2> QED BY <2>1
<1>11. Chain!Rotate(g, Ends \ {g})
  BY <1>2, <1>7, <1>8, <1>9, <1>10 DEF Chain!Rotate, Grants, UsableBar
<1> QED BY <1>2, <1>11 DEF Chain!Next, Ends, Grants

LEMMA StepRefined ==
  ASSUME IInv, IInv', CodesAreGrants, [Next]_vars
  PROVE  [Chain!Next]_(Chain!vars)
<1>1. CASE ExchangeCode
  BY <1>1, ExchangeCodeRefined
<1>2. CASE \E s \in Scopes : ExchangeRefresh(s)
  BY <1>2, ExchangeRefreshRefined
<1>3. ASSUME NEW n \in DOMAIN pairs, LoadRefresh(n)
      PROVE  Chain!Next
  <2>1. /\ n \in refresh /\ pairs' = pairs /\ refresh' \subseteq refresh
        /\ call' \in {call, [kind |-> "refresh", item |-> n]}
    BY <1>3 DEF LoadRefresh, minted
  <2>2. \A g \in Grants : Held'[g] \subseteq Held[g]
    BY <2>1 DEF Held
  <2> QED BY <2>1, <2>2, EndRefined
<1>4. ASSUME NEW q \in codes, LoadCode(q)
      PROVE  Chain!Next
  <2>1. /\ pairs' = pairs /\ refresh' = refresh
        /\ call' \in {call, [kind |-> "code", item |-> q]}
    BY <1>4 DEF LoadCode, minted
  <2>2. \A g \in Grants : Held'[g] \subseteq Held[g]
    BY <2>1 DEF Held
  <2> QED BY <2>1, <2>2, EndRefined
<1>5. ASSUME pairs' = pairs, refresh' \subseteq refresh, call' \in {call, NoCall}
      PROVE  Chain!Next
  <2>1. \A g \in Grants : Held'[g] \subseteq Held[g]
    BY <1>5 DEF Held, NoCall
  <2> QED BY <1>5, <2>1, EndRefined
<1>6. CASE \/ \E d \in Client : RegisterClient(d)
           \/ \E c \in Client, u \in User, s \in Scopes : CompletePending(c, u, s)
           \/ \E n \in DOMAIN pairs : PresentSpent(n) \/ RefuseAccess(n) \/ RevokeAccess(n)
                                        \/ RevokeRefresh(n)
           \/ RefuseExchange
  BY <1>5, <1>6 DEF RegisterClient, CompletePending, PresentSpent, RevokeFamily, RefuseAccess,
       RevokeAccess, RevokeRefresh, RefuseExchange, tables, minted
<1>7. CASE AdminStep
  BY <1>5, <1>7 DEF AdminStep, PopClient, SweepAccess, SweepRefresh, ChangeRole,
       ChangePassword, tables, minted
<1>8. CASE Clock \/ UNCHANGED vars
  BY <1>5, <1>8 DEF Clock, Expire, ExpireCode, vars, tables, minted
<1> QED BY <1>1, <1>2, <1>3, <1>4, <1>6, <1>7, <1>8 DEF Next, LoopStep

-----------------------------------------------------------------------------
(* Theorems *)

\* The inductive invariant holds in every reachable state.
THEOREM Invariance == Spec => []IInv
BY InitIInv, NextIInv, PTL DEF Spec

\* Every variable keeps its type: in particular no table ever names a token that was
\* not minted.
THEOREM TypeCorrect == Spec => []TypeOK
BY Invariance, PTL DEF IInv

\* Rotation: however requests, sign-outs, evictions and an administrator interleave,
\* only the newest pair of a family can be alive.
THEOREM RotationCorrect == Spec => []OnlyNewestLives
BY Invariance, PTL DEF IInv

\* Reuse detection is final for the whole family.
THEOREM ReuseIsFinal == Spec => []ReusedFamilyIsDead
BY Invariance, PTL DEF IInv

\* An authorization code starts one family and no more.
THEOREM CodeIsOneShot == Spec => []OneFamilyPerCode
<1>1. IInv => OneFamilyPerCode
  BY DEF IInv, CodesSpent
<1> QED BY <1>1, Invariance, PTL
\* A pair can do no more than its grant and every refresh on the way allowed, and never
\* changes hands: an exchange copies the code it was given, a refresh only narrows.
THEOREM GrantKept == Spec => []WithinGrant
<1>1. Init => ParentsKnown /\ WithinGrant
  BY DEF Init, ParentsKnown, WithinGrant
<1>2. IInv /\ ParentsKnown /\ WithinGrant /\ [Next]_vars => ParentsKnown' /\ WithinGrant'
  BY WithinGrantStep
<1> QED BY <1>1, <1>2, Invariance, PTL DEF Spec

\* No table outgrows its limit, whatever is evicted: _gc runs before every insertion.
THEOREM TablesStayBounded == Spec => []TablesBounded
<1>1. Init => TablesBounded
  BY FS_EmptySet, ConstantsAssumption DEF Init, TablesBounded, ConstantsAssumption
<1>2. IInv /\ TablesBounded /\ [Next]_vars => TablesBounded'
  BY TablesBoundedStep
<1> QED BY <1>1, <1>2, Invariance, PTL DEF Spec

\* A client forgotten in the portal gets no token and begins no request, except for the
\* one request the event loop was in the middle of.
THEOREM ForgottenStaysOut == Spec => ForgottenGainsNothing
<1>1. IInv /\ [Next]_vars =>
        [\A c \in Client :
           /\ status[c] \in {"popped", "swept", "revoked"}
           /\ ~Serving(c)
           => /\ ~Serving(c)'
              /\ \A n \in access' \cup refresh' : pairs'[n].client = c => n \in Live]_vars
  BY ForgottenStep DEF Forgotten, GainsNothing
<1> QED BY <1>1, Invariance, PTL DEF Spec, ForgottenGainsNothing

\* The provider implements the promise of GrantChain: the codes and refresh tokens of every
\* grant form one chain, in which one token at most can be exchanged, each token once and
\* for one successor, and which never starts again after it ended.
THEOREM ChainsImplemented == Spec => ImplementsChains
<1>1. Init => Chain!Init
  <2> SUFFICES ASSUME Init PROVE Chain!Init
    OBVIOUS
  <2>1. pairs = <<>> /\ DOMAIN pairs = {} /\ Len(pairs) = 0
    BY DEF Init
  <2>2. \A g \in Grants : UsableBar[g] = 0
    BY <2>1, InitIInv, UsableFacts DEF Held, UsableIsHeld
  <2> QED BY <2>1, <2>2 DEF Chain!Init, Grants, UsableBar
<1>2. Init => CodesAreGrants
  BY ConstantsAssumption DEF Init, CodesAreGrants, ConstantsAssumption
<1>3. IInv /\ CodesAreGrants /\ [Next]_vars => CodesAreGrants'
  BY CodesAreGrantsStep
<1>4. IInv /\ IInv' /\ CodesAreGrants /\ [Next]_vars => [Chain!Next]_(Chain!vars)
  BY StepRefined
<1> QED BY <1>1, <1>2, <1>3, <1>4, Invariance, PTL DEF Spec, ImplementsChains, Chain!Spec
=============================================================================
