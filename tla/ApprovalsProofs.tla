--------------------------- MODULE ApprovalsProofs ---------------------------
(***************************************************************************)
(* What the approvals guarantee for any calls, tasks, families of actions, *)
(* thresholds and bounds.  A callback finds its record by the text of the  *)
(* prompt, so it may await the record of a call that asks the same: the    *)
(* invariant counts, for every prompt, the records that nobody awaits.     *)
(***************************************************************************)
EXTENDS Approvals, SequenceLemmas, FiniteSetTheorems, TLAPS

AskedOf(c) == <<TaskOf[c], ActionOf[c]>>
InOrder(p) == \E i \in DOMAIN order : order[i] = p
Live(p) == InOrder(p) /\ future[p] = "pending"

(* An attempt that has not been prompted for has left no trace. *)
Fresh ==
    \A p \in Prompts :
        \/ p[2] > attempt[p[1]]
        \/ p[2] = attempt[p[1]] /\ st[p[1]] \in {"idle", "asking"}
        => future[p] = "none" /\ ~InOrder(p)

(* A callback awaits a record with its own text. *)
AwaitsItsText ==
    \A c \in Calls : st[c] = "waiting" =>
        future[awaits[c]] # "none" /\ Message(awaits[c]) = AskedOf(c)

(* The calls whose prompt is published with the text m, and the records with
   that text that no callback awaits. *)
Publishing(m) == {c \in Calls : st[c] = "publishing" /\ AskedOf(c) = m}
Free(m) == {p \in Prompts : Live(p) /\ Message(p) = m /\ \A c \in Calls : awaits[c] # p}

(* Every callback that has yet to scan will find a record with its text. *)
EnoughRecords ==
    \A m \in Tasks \X Actions : Cardinality(Publishing(m)) <= Cardinality(Free(m))

(* What is granted, and what an answer will grant, has been approved. *)
GrantsApproved ==
    /\ session \cup disk \cup project \subseteq approved
    /\ \A p \in Prompts : future[p] \in Replies =>
           Covered(future[p], ActionOf[CallOf(p)]) \subseteq approved

(* The record of a prompt nobody else shows is live only while its call is
   about to await it or awaits it, and its card is open. *)
OwnRecord ==
    \A p \in Prompts : Live(p) /\ ~Aliased(CallOf(p)) =>
        /\ p = Prompt(CallOf(p))
        /\ st[CallOf(p)] \in {"publishing", "waiting"}
        /\ card[p] = "pending"

ApprovedInv ==
    /\ TypeOK
    /\ Fresh /\ AwaitsItsText /\ EnoughRecords
    /\ GrantsApproved /\ RunsOnlyApproved

(* A record that waits for its answer is in the list, and a callback whose
   prompt nobody else shows awaits its own. *)
PendingListed == \A p \in Prompts : future[p] = "pending" => InOrder(p)
AwaitsOwn == \A c \in Calls : st[c] = "waiting" /\ ~Aliased(c) => awaits[c] = Prompt(c)

CardInv ==
    /\ ApprovedInv
    /\ PendingListed /\ OwnRecord /\ AwaitsOwn
    /\ ParkedHasCard

-----------------------------------------------------------------------------
(* Types, and the grants in memory. *)

USE DEF Asking, Over, Replies, NoPrompt

LEMMA PromptTypes ==
    ASSUME TypeOK, NEW c \in Calls
    PROVE  /\ Prompt(c) \in Prompts
           /\ Prompt(c)[1] = c /\ Prompt(c)[2] = attempt[c]
           /\ Message(Prompt(c)) = AskedOf(c)
           /\ AskedOf(c) \in Tasks \X Actions
  BY ApprovalsAssumption DEF TypeOK, Prompt, Prompts, Message, AskedOf, CallOf

LEMMA PromptParts ==
    ASSUME NEW p \in Prompts
    PROVE  /\ CallOf(p) \in Calls /\ p[1] = CallOf(p)
           /\ p[2] \in 1..MaxAttempts[CallOf(p)]
           /\ p = <<p[1], p[2]>>
           /\ p # NoPrompt
           /\ ActionOf[CallOf(p)] \in Actions
           /\ Message(p) \in Tasks \X Actions
  <1>1. PICK c \in Calls : p \in {c} \X (1..MaxAttempts[c])
    BY DEF Prompts
  <1>2. p[1] = c /\ p[2] \in 1..MaxAttempts[c] /\ p = <<p[1], p[2]>>
    BY <1>1
  <1>3. p # <<>>
    <2>1. <<p[1], p[2]>> # <<>>
      OBVIOUS
    <2> QED
      BY <2>1, <1>2
  <1> QED
    BY <1>2, <1>3, ApprovalsAssumption DEF CallOf, Message

LEMMA AttemptTypes ==
    ASSUME TypeOK, NEW p \in Prompts
    PROVE  p[1] \in Calls /\ p[2] \in Nat /\ attempt[p[1]] \in Nat
  BY PromptParts, ApprovalsAssumption DEF TypeOK

\* The newest of some live records is one of them.
LEMMA NewestProperties ==
    ASSUME TypeOK, NEW I \in SUBSET DOMAIN order, I # {}
    PROVE  \E i \in I : Newest(I) = order[i]
  <1>1. I \in SUBSET Nat /\ Len(order) \in Nat /\ \A i \in I : i <= Len(order)
    BY DEF TypeOK
  <1>2. \E i \in I : \A j \in I : j <= i
    BY <1>1, GreatestExists
  <1>3. (CHOOSE i \in I : \A j \in I : j <= i) \in I
    BY <1>2
  <1> QED
    BY <1>3 DEF Newest

\* What a callback comes to await: a live record, with its text if there is one.
LEMMA ScanFinds ==
    ASSUME TypeOK, NEW c \in Calls, Pending # {},
           NEW p, p = Newest(IF Matching(c) # {} THEN Matching(c) ELSE Pending)
    PROVE  /\ p \in Prompts /\ Live(p)
           /\ Matching(c) # {} => Message(p) = AskedOf(c)
  <1>1. Pending \subseteq DOMAIN order /\ Matching(c) \subseteq Pending
    BY DEF Pending, Matching
  <1>2. CASE Matching(c) # {}
    <2>1. PICK i \in Matching(c) : p = order[i]
      BY <1>1, <1>2, NewestProperties
    <2>2. i \in DOMAIN order /\ future[p] = "pending" /\ Message(p) = Message(Prompt(c))
      BY <2>1 DEF Matching, Pending
    <2>3. p \in Prompts
      BY <2>1, <2>2 DEF TypeOK
    <2> QED
      BY <2>1, <2>2, <2>3, PromptTypes DEF Live, InOrder
  <1>3. CASE Matching(c) = {}
    <2>1. PICK i \in Pending : p = order[i]
      BY <1>1, <1>3, NewestProperties
    <2>2. i \in DOMAIN order /\ future[p] = "pending"
      BY <2>1 DEF Pending
    <2>3. p \in Prompts
      BY <2>1, <2>2 DEF TypeOK
    <2> QED
      BY <2>1, <2>2, <2>3, <1>3 DEF Live, InOrder
  <1> QED
    BY <1>2, <1>3

\* A record taken out of the list.
LEMMA WithoutProperties ==
    ASSUME TypeOK, NEW p
    PROVE  /\ Without(p) \in Seq(Prompts)
           /\ \A i \in DOMAIN Without(p) : InOrder(Without(p)[i])
           /\ \A q : InOrder(q) /\ q # p => \E i \in DOMAIN Without(p) : Without(p)[i] = q
  <1>1. order \in Seq(Prompts)
    BY DEF TypeOK
  <1>2. /\ Without(p) \in Seq(Prompts)
        /\ \A i \in DOMAIN Without(p) : \E j \in DOMAIN order : Without(p)[i] = order[j]
        /\ \A j \in DOMAIN order : order[j] # p =>
               \E i \in DOMAIN Without(p) : Without(p)[i] = order[j]
    BY <1>1, RemoveFirstProperties DEF Without
  <1> QED
    BY <1>2 DEF InOrder

\* What a grant does to the grants.
LEMMA GrantEffect ==
    ASSUME TypeOK, SessionGrantsStored, NEW r \in Replies, NEW a \in Actions, Grant(r, a)
    PROVE  /\ loaded' \in BOOLEAN /\ session' \subseteq Actions
           /\ disk' \subseteq Actions /\ project' \subseteq Actions
           /\ session' \subseteq disk'
           /\ session' \cup disk' \cup project' \subseteq session \cup disk \cup project \cup Covered(r, a)
  <1>1. Family(a) \subseteq Actions
    BY DEF Family
  <1>2. CASE r = "approve_once"
    BY <1>2 DEF Grant, AddToSession, Covered, TypeOK, SessionGrantsStored
  <1>3. CASE r = "approve_session"
    BY <1>1, <1>3 DEF Grant, AddToSession, Covered, TypeOK, SessionGrantsStored
  <1>4. CASE r = "always_project"
    BY <1>1, <1>4 DEF Grant, Covered, TypeOK, SessionGrantsStored
  <1>5. CASE r = "deny"
    BY <1>5 DEF Grant, grantVars, TypeOK, SessionGrantsStored
  <1> QED
    BY <1>2, <1>3, <1>4, <1>5

LEMMA HydrateEffect ==
    ASSUME TypeOK, SessionGrantsStored, Hydrate, UNCHANGED disk
    PROVE  /\ loaded' \in BOOLEAN /\ session' \subseteq Actions /\ session' \subseteq disk'
  BY DEF Hydrate, Hydrated, TypeOK, SessionGrantsStored

LEMMA DenyTypes ==
    ASSUME TypeOK, NEW a \in Actions, NEW n \in Nat, Deny(a, n)
    PROVE  denials' \in [Actions -> 0..Threshold]
  BY ApprovalsAssumption DEF Deny, TypeOK

LEMMA PredictKeepsTypes ==
    ASSUME TypeOK, SessionGrantsStored, NEW c \in Calls, Predict(c)
    PROVE  TypeOK' /\ SessionGrantsStored'
  <1>1. ActionOf[c] \in Actions
    BY ApprovalsAssumption
  <1>2. denials' \in [Actions -> 0..Threshold]
    <2>1. CASE Deny(ActionOf[c], 1)
      BY <1>1, <2>1, DenyTypes
    <2>2. CASE UNCHANGED denials
      BY <2>2 DEF TypeOK
    <2> QED
      BY <2>1, <2>2 DEF Predict
  <1>3. /\ loaded' \in BOOLEAN /\ session' \subseteq Actions
        /\ session' \subseteq disk'
    BY HydrateEffect DEF Predict, TypeOK, SessionGrantsStored
  <1> QED
    BY <1>2, <1>3 DEF Predict, TypeOK, SessionGrantsStored, cardVars

LEMMA AuthorizeKeepsTypes ==
    ASSUME TypeOK, SessionGrantsStored, NEW c \in Calls, Authorize(c)
    PROVE  TypeOK' /\ SessionGrantsStored'
  <1>1. /\ loaded' \in BOOLEAN /\ session' \subseteq Actions
        /\ session' \subseteq disk'
    BY HydrateEffect DEF Authorize
  <1>2. CASE Granted(ActionOf[c])
    BY <1>1, <1>2 DEF Authorize, TypeOK, SessionGrantsStored, cardVars
  <1>3. CASE ~Granted(ActionOf[c])
    <2>1. Prompt(c) \in Prompts
      BY PromptTypes
    <2>2. order' \in Seq(Prompts)
      <3>1. order' = Append(order, Prompt(c))
        BY <1>3 DEF Authorize
      <3> QED
        BY <2>1, <3>1 DEF TypeOK
    <2>3. future' \in [Prompts -> Replies \cup {"none", "pending", "cancelled"}]
      BY <1>3, <2>1 DEF Authorize, TypeOK
    <2>4. card' \in [Prompts -> {"none", "pending", "closed"}]
      BY <1>3, <2>1 DEF Authorize, TypeOK
    <2>5. /\ st' \in [Calls -> Asking \cup Over \cup {"idle", "parked"}]
          /\ \A b \in Calls : (st'[b] = "waiting") = (st[b] = "waiting")
      BY <1>3 DEF Authorize, TypeOK
    <2> QED
      BY <1>1, <2>2, <2>3, <2>4, <2>5 DEF Authorize, TypeOK, SessionGrantsStored
  <1> QED
    BY <1>2, <1>3 DEF Authorize

LEMMA ScanKeepsTypes ==
    ASSUME TypeOK, SessionGrantsStored, NEW c \in Calls, Scan(c)
    PROVE  TypeOK' /\ SessionGrantsStored'
  <1>1. SessionGrantsStored'
    BY DEF Scan, SessionGrantsStored, grantVars
  <1>2. CASE Pending = {}
    <2>1. denials' \in [Actions -> 0..Threshold]
      BY <1>2, DenyTypes, ApprovalsAssumption DEF Scan
    <2> QED
      BY <1>1, <1>2, <2>1 DEF Scan, TypeOK, grantVars, cardVars
  <1>3. CASE Pending # {}
    <2> DEFINE p == Newest(IF Matching(c) # {} THEN Matching(c) ELSE Pending)
    <2>1. p \in Prompts
      BY <1>3, ScanFinds
    <2>2. p # NoPrompt
      BY <2>1, PromptParts
    <2>3. awaits' = [awaits EXCEPT ![c] = p]
      BY <1>3 DEF Scan
    <2> HIDE DEF p
    <2> QED
      BY <1>1, <1>3, <2>1, <2>2, <2>3 DEF Scan, TypeOK, grantVars, cardVars
  <1> QED
    BY <1>2, <1>3

LEMMA RepliedKeepsTypes ==
    ASSUME TypeOK, SessionGrantsStored, NEW c \in Calls, Replied(c)
    PROVE  TypeOK' /\ SessionGrantsStored'
  <1>1. ActionOf[c] \in Actions
    BY ApprovalsAssumption
  <1>2. /\ loaded' \in BOOLEAN /\ session' \subseteq Actions
        /\ disk' \subseteq Actions /\ project' \subseteq Actions
        /\ session' \subseteq disk'
    BY <1>1, GrantEffect DEF Replied
  <1>3. denials' \in [Actions -> 0..Threshold]
    <2>1. CASE Deny(ActionOf[c], 2)
      BY <1>1, <2>1, DenyTypes
    <2>2. CASE UNCHANGED denials
      BY <2>2 DEF TypeOK
    <2> QED
      BY <2>1, <2>2 DEF Replied
  <1>4. order' \in Seq(Prompts)
    BY WithoutProperties DEF Replied
  <1>5. card' \in [Prompts -> {"none", "pending", "closed"}]
    BY PromptTypes DEF Replied, TypeOK
  <1>6. /\ st' \in [Calls -> Asking \cup Over \cup {"idle", "parked"}]
        /\ awaits' \in [Calls -> Prompts \cup {NoPrompt}]
        /\ \A b \in Calls : (st'[b] = "waiting") = (awaits'[b] # NoPrompt)
    BY DEF Replied, TypeOK
  <1> QED
    BY <1>2, <1>3, <1>4, <1>5, <1>6 DEF Replied, TypeOK, SessionGrantsStored

LEMMA ExpireKeepsTypes ==
    ASSUME TypeOK, SessionGrantsStored, NEW c \in Calls, Expire(c)
    PROVE  TypeOK' /\ SessionGrantsStored'
  <1>1. denials' \in [Actions -> 0..Threshold]
    BY DenyTypes, ApprovalsAssumption DEF Expire
  <1>2. order' \in Seq(Prompts)
    BY WithoutProperties DEF Expire
  <1>3. future' \in [Prompts -> Replies \cup {"none", "pending", "cancelled"}]
    BY DEF Expire, TypeOK
  <1>4. /\ st' \in [Calls -> Asking \cup Over \cup {"idle", "parked"}]
        /\ awaits' \in [Calls -> Prompts \cup {NoPrompt}]
        /\ \A b \in Calls : (st'[b] = "waiting") = (awaits'[b] # NoPrompt)
    BY DEF Expire, TypeOK
  <1> QED
    BY <1>1, <1>2, <1>3, <1>4 DEF Expire, TypeOK, SessionGrantsStored, grantVars

LEMMA CancelledKeepsTypes ==
    ASSUME TypeOK, SessionGrantsStored, NEW c \in Calls, CancelledByOther(c)
    PROVE  TypeOK' /\ SessionGrantsStored'
  BY DEF CancelledByOther, TypeOK, SessionGrantsStored, grantVars, cardVars

LEMMA AgainKeepsTypes ==
    ASSUME TypeOK, SessionGrantsStored, NEW c \in Calls, Again(c)
    PROVE  TypeOK' /\ SessionGrantsStored'
  <1>1. attempt' \in [Calls -> Nat] /\ \A b \in Calls : attempt'[b] \in 1..MaxAttempts[b]
    <2>1. \A b \in Calls : attempt[b] \in Nat /\ MaxAttempts[b] \in Nat /\ 1 <= attempt[b]
      BY ApprovalsAssumption DEF TypeOK
    <2>2. attempt' = [attempt EXCEPT ![c] = attempt[c] + 1] /\ attempt[c] < MaxAttempts[c]
      BY DEF Again
    <2> QED
      BY <2>1, <2>2 DEF TypeOK
  <1>2. st[c] # "waiting"
    BY DEF Again
  <1> QED
    BY <1>1, <1>2 DEF Again, TypeOK, SessionGrantsStored, grantVars, cardVars

LEMMA ClickKeepsTypes ==
    ASSUME TypeOK, SessionGrantsStored, NEW p \in Prompts, NEW r \in Replies, Click(p, r)
    PROVE  TypeOK' /\ SessionGrantsStored'
  <1>1. Covered(r, ActionOf[CallOf(p)]) \subseteq Actions
    BY PromptParts DEF Covered, Family
  <1>2. future' \in [Prompts -> Replies \cup {"none", "pending", "cancelled"}]
    BY DEF Click, TypeOK
  <1>3. card' \in [Prompts -> {"none", "pending", "closed"}]
    BY DEF Click, TypeOK
  <1>4. approved' \subseteq Actions
    BY <1>1 DEF Click, TypeOK
  <1> QED
    BY <1>2, <1>3, <1>4 DEF Click, TypeOK, SessionGrantsStored, callVars, grantVars

LEMMA ClickExpiredKeepsTypes ==
    ASSUME TypeOK, SessionGrantsStored, NEW p \in Prompts, NEW r \in Replies, ClickExpired(p, r)
    PROVE  TypeOK' /\ SessionGrantsStored'
  <1>1. ActionOf[CallOf(p)] \in Actions /\ Covered(r, ActionOf[CallOf(p)]) \subseteq Actions
    BY PromptParts DEF Covered, Family
  <1>2. /\ loaded' \in BOOLEAN /\ session' \subseteq Actions
        /\ disk' \subseteq Actions /\ project' \subseteq Actions
        /\ session' \subseteq disk'
    BY <1>1, GrantEffect DEF ClickExpired
  <1>3. /\ st' \in [Calls -> Asking \cup Over \cup {"idle", "parked"}]
        /\ \A c \in Calls : (st'[c] = "waiting") = (st[c] = "waiting")
    BY DEF ClickExpired, TypeOK
  <1>4. attempt' \in [Calls -> Nat] /\ \A c \in Calls : attempt'[c] \in 1..MaxAttempts[c]
    BY ApprovalsAssumption DEF ClickExpired, TypeOK
  <1>5. card' \in [Prompts -> {"none", "pending", "closed"}]
    BY DEF ClickExpired, TypeOK
  <1>6. approved' \subseteq Actions
    BY <1>1 DEF ClickExpired, TypeOK
  <1> QED
    BY <1>2, <1>3, <1>4, <1>5, <1>6 DEF ClickExpired, TypeOK, SessionGrantsStored

LEMMA RestartKeepsTypes ==
    ASSUME TypeOK, SessionGrantsStored, Restart
    PROVE  TypeOK' /\ SessionGrantsStored'
  <1>1. restarts' \in 0..MaxRestarts
    BY ApprovalsAssumption DEF Restart, TypeOK
  <1>2. order' \in Seq(Prompts)
    BY DEF Restart
  <1>3. /\ st' \in [Calls -> Asking \cup Over \cup {"idle", "parked"}]
        /\ \A c \in Calls : st'[c] # "waiting"
    BY DEF Restart, TypeOK
  <1>4. /\ awaits' \in [Calls -> Prompts \cup {NoPrompt}]
        /\ \A c \in Calls : awaits'[c] = NoPrompt
    BY DEF Restart
  <1>5. /\ denials' \in [Actions -> 0..Threshold]
        /\ future' \in [Prompts -> Replies \cup {"none", "pending", "cancelled"}]
    BY ApprovalsAssumption DEF Restart
  <1>6. session' \subseteq Actions /\ loaded' \in BOOLEAN /\ session' \subseteq disk'
    BY DEF Restart
  <1> QED
    BY <1>1, <1>2, <1>3, <1>4, <1>5, <1>6 DEF Restart, TypeOK, SessionGrantsStored

THEOREM StepKeepsTypes ==
    ASSUME TypeOK, SessionGrantsStored, [Next]_vars
    PROVE  TypeOK' /\ SessionGrantsStored'
  <1>1. ASSUME NEW c \in Calls, CallStep(c)
        PROVE  TypeOK' /\ SessionGrantsStored'
    BY <1>1, PredictKeepsTypes, AuthorizeKeepsTypes, ScanKeepsTypes, RepliedKeepsTypes,
       ExpireKeepsTypes, CancelledKeepsTypes DEF CallStep
  <1>2. ASSUME NEW c \in Calls, Again(c)
        PROVE  TypeOK' /\ SessionGrantsStored'
    BY <1>2, AgainKeepsTypes
  <1>3. CASE Human
    BY <1>3, ClickKeepsTypes, ClickExpiredKeepsTypes DEF Human
  <1>4. CASE Restart
    BY <1>4, RestartKeepsTypes
  <1>5. CASE UNCHANGED vars
    BY <1>5 DEF vars, callVars, grantVars, cardVars, TypeOK, SessionGrantsStored
  <1> QED
    BY <1>1, <1>2, <1>3, <1>4, <1>5 DEF Next

LEMMA InitTypes ==
    ASSUME Init
    PROVE  TypeOK /\ SessionGrantsStored
  <1>1. attempt \in [Calls -> Nat] /\ \A c \in Calls : attempt[c] \in 1..MaxAttempts[c]
    BY ApprovalsAssumption DEF Init
  <1>2. /\ future \in [Prompts -> Replies \cup {"none", "pending", "cancelled"}]
        /\ card \in [Prompts -> {"none", "pending", "closed"}]
        /\ order \in Seq(Prompts)
    BY DEF Init
  <1>3. denials \in [Actions -> 0..Threshold] /\ restarts \in 0..MaxRestarts
    BY ApprovalsAssumption DEF Init
  <1>4. /\ st \in [Calls -> Asking \cup Over \cup {"idle", "parked"}]
        /\ awaits \in [Calls -> Prompts \cup {NoPrompt}]
        /\ \A c \in Calls : (st[c] = "waiting") = (awaits[c] # NoPrompt)
    BY DEF Init
  <1> QED
    BY <1>1, <1>2, <1>3, <1>4 DEF Init, TypeOK, SessionGrantsStored

-----------------------------------------------------------------------------
(* Counting records. *)

LEMMA PromptsFinite == IsFiniteSet(Prompts)
  <1> DEFINE of == [c \in Calls |-> {c} \X (1..MaxAttempts[c])]
             all == {{c} \X (1..MaxAttempts[c]) : c \in Calls}
  <1>1. of \in Surjection(Calls, all)
    BY DEF Surjection
  <1>2. IsFiniteSet(all)
    <2> HIDE DEF of, all
    <2> QED
      BY <1>1, FS_Surjection, ApprovalsAssumption
  <1>3. ASSUME NEW c \in Calls
        PROVE  IsFiniteSet({c} \X (1..MaxAttempts[c]))
    <2>1. MaxAttempts[c] \in Int /\ 1 \in Int
      BY ApprovalsAssumption
    <2>2. IsFiniteSet({c}) /\ IsFiniteSet(1..MaxAttempts[c])
      BY <2>1, FS_Singleton, FS_Interval
    <2> QED
      BY <2>2, FS_Product
  <1>4. \A T \in all : IsFiniteSet(T)
    BY <1>3
  <1>5. Prompts = UNION all
    BY DEF Prompts
  <1> HIDE DEF all
  <1> QED
    BY <1>2, <1>4, <1>5, FS_UNION

LEMMA CountTypes ==
    ASSUME NEW m
    PROVE  /\ IsFiniteSet(Publishing(m)) /\ Cardinality(Publishing(m)) \in Nat
           /\ IsFiniteSet(Free(m)) /\ Cardinality(Free(m)) \in Nat
           /\ IsFiniteSet(Free(m)') /\ Cardinality(Free(m)') \in Nat
           /\ IsFiniteSet(Publishing(m)') /\ Cardinality(Publishing(m)') \in Nat
  <1>1. /\ Publishing(m) \in SUBSET Calls /\ Publishing(m)' \in SUBSET Calls
        /\ Free(m) \in SUBSET Prompts /\ Free(m)' \in SUBSET Prompts
    BY DEF Publishing, Free
  <1> QED
    BY <1>1, PromptsFinite, ApprovalsAssumption, FS_Subset, FS_CardinalityType

\* No callback is added and no free record lost.
LEMMA EnoughKept ==
    ASSUME EnoughRecords,
           \A m \in Tasks \X Actions :
               Publishing(m)' \subseteq Publishing(m) /\ Free(m) \subseteq Free(m)'
    PROVE  EnoughRecords'
  <1> SUFFICES ASSUME NEW m \in Tasks \X Actions
               PROVE  Cardinality(Publishing(m)') <= Cardinality(Free(m)')
    BY DEF EnoughRecords
  <1>1. Cardinality(Publishing(m)') <= Cardinality(Publishing(m))
    BY CountTypes, FS_Subset
  <1>2. Cardinality(Free(m)) <= Cardinality(Free(m)')
    BY CountTypes, FS_Subset
  <1>3. Cardinality(Publishing(m)) <= Cardinality(Free(m))
    BY DEF EnoughRecords
  <1> QED
    BY <1>1, <1>2, <1>3, CountTypes

\* A callback that has published finds a record with its text.
LEMMA PublisherFinds ==
    ASSUME TypeOK, EnoughRecords, NEW c \in Calls, st[c] = "publishing"
    PROVE  Pending # {} /\ Matching(c) # {}
  <1> DEFINE m == AskedOf(c)
  <1>1. m \in Tasks \X Actions /\ Message(Prompt(c)) = m
    BY PromptTypes
  <1>2. c \in Publishing(m)
    BY DEF Publishing
  <1> HIDE DEF m
  <1>3. Cardinality(Publishing(m)) # 0
    BY <1>2, CountTypes, FS_EmptySet
  <1>4. Cardinality(Free(m)) # 0
    BY <1>1, <1>3, CountTypes DEF EnoughRecords
  <1>5. Free(m) # {}
    BY <1>4, FS_EmptySet
  <1>6. PICK p \in Prompts : Live(p) /\ Message(p) = m
    BY <1>5 DEF Free
  <1> QED
    BY <1>1, <1>6 DEF Live, InOrder, Matching, Pending

\* Between a publication and its scan no card is clicked.
LEMMA ClickAlone ==
    ASSUME ~ClicksDuringPublish, NEW p, MayClick(p)
    PROVE  \A m : Publishing(m) = {}
  BY DEF MayClick, Publishing

-----------------------------------------------------------------------------
(* What every step keeps: nothing runs without an approval. *)

\* A step that leaves records, answers and grants alone, takes no callback to
\* the scan and starts nothing.
LEMMA QuietStep ==
    ASSUME ApprovedInv, TypeOK', UNCHANGED <<order, future, project, disk, awaits, approved>>,
           session' \subseteq session \cup disk,
           NEW c \in Calls,
           \A b \in Calls \ {c} : st'[b] = st[b] /\ attempt'[b] = attempt[b],
           \/ attempt'[c] = attempt[c] + 1
           \/ attempt'[c] = attempt[c] /\ (st'[c] \in {"idle", "asking"} => st[c] \in {"idle", "asking"}),
           st'[c] \notin {"publishing", "waiting"},
           st'[c] = "ran" => ActionOf[c] \in approved
    PROVE  ApprovedInv'
  <1> USE DEF ApprovedInv
  <1>1. Fresh'
    <2> SUFFICES ASSUME NEW p \in Prompts,
                        \/ p[2] > attempt'[p[1]]
                        \/ p[2] = attempt'[p[1]] /\ st'[p[1]] \in {"idle", "asking"}
                 PROVE  future'[p] = "none" /\ ~InOrder(p)'
      BY DEF Fresh
    <2>1. p[1] \in Calls /\ p[2] \in Nat /\ attempt[p[1]] \in Nat
      BY AttemptTypes
    <2>2. \/ p[2] > attempt[p[1]]
          \/ p[2] = attempt[p[1]] /\ st[p[1]] \in {"idle", "asking"}
      BY <2>1
    <2> QED
      BY <2>2 DEF Fresh, InOrder
  <1>2. AwaitsItsText'
    BY DEF AwaitsItsText
  <1>3. EnoughRecords'
    <2>1. \A m : Publishing(m)' \subseteq Publishing(m) /\ Free(m) = Free(m)'
      BY DEF Publishing, Free, Live, InOrder
    <2> QED
      BY <2>1, EnoughKept
  <1>4. GrantsApproved'
    BY DEF GrantsApproved
  <1>5. RunsOnlyApproved'
    BY DEF RunsOnlyApproved
  <1> QED
    BY <1>1, <1>2, <1>3, <1>4, <1>5

LEMMA PredictKeeps ==
    ASSUME ApprovedInv, TypeOK', NEW c \in Calls, Predict(c)
    PROVE  ApprovedInv'
  <1>1. TypeOK
    BY DEF ApprovedInv
  <1>2. UNCHANGED <<order, future, project, disk, awaits, approved>> /\ attempt' = attempt
    BY DEF Predict, cardVars
  <1>3. session' \subseteq session \cup disk
    BY DEF Predict, Hydrate, Hydrated
  <1>4. \A b \in Calls \ {c} : st'[b] = st[b]
    BY <1>1 DEF Predict, TypeOK
  <1>5. st[c] = "idle" /\ st'[c] \in {"refused", "ran", "asking"}
    BY <1>1 DEF Predict, TypeOK
  <1>6. st'[c] = "ran" => ActionOf[c] \in approved
    <2>1. st'[c] = "ran" => Granted(ActionOf[c])
      BY <1>1 DEF Predict, TypeOK
    <2> QED
      BY <2>1 DEF Granted, Hydrated, ApprovedInv, GrantsApproved
  <1> QED
    BY <1>2, <1>3, <1>4, <1>5, <1>6, QuietStep

LEMMA CancelledKeeps ==
    ASSUME ApprovedInv, TypeOK', NEW c \in Calls, CancelledByOther(c)
    PROVE  ApprovedInv'
  <1> USE DEF ApprovedInv
  <1>1. /\ UNCHANGED <<order, future, project, disk, session, attempt, approved>>
        /\ st'[c] = "dead" /\ awaits'[c] = NoPrompt
        /\ \A b \in Calls \ {c} : st'[b] = st[b] /\ awaits'[b] = awaits[b]
        /\ future[awaits[c]] = "cancelled"
    BY DEF CancelledByOther, TypeOK, cardVars, grantVars
  <1>2. Fresh'
    BY <1>1, PromptParts DEF Fresh, InOrder
  <1>3. AwaitsItsText'
    BY <1>1 DEF AwaitsItsText
  <1>4. EnoughRecords'
    <2>1. \A m : Publishing(m)' \subseteq Publishing(m)
      BY <1>1 DEF Publishing
    <2>2. \A m : Free(m) \subseteq Free(m)'
      BY <1>1, PromptParts DEF Free, Live, InOrder
    <2> QED
      BY <2>1, <2>2, EnoughKept
  <1>5. GrantsApproved'
    BY <1>1 DEF GrantsApproved
  <1>6. RunsOnlyApproved'
    BY <1>1 DEF RunsOnlyApproved
  <1> QED
    BY <1>2, <1>3, <1>4, <1>5, <1>6

LEMMA AgainKeeps ==
    ASSUME ApprovedInv, TypeOK', NEW c \in Calls, Again(c)
    PROVE  ApprovedInv'
  <1>1. TypeOK
    BY DEF ApprovedInv
  <1>2. UNCHANGED <<order, future, project, disk, session, awaits, approved>>
    BY DEF Again, cardVars, grantVars
  <1>3. \A b \in Calls \ {c} : st'[b] = st[b] /\ attempt'[b] = attempt[b]
    BY <1>1 DEF Again, TypeOK
  <1>4. st'[c] = "idle" /\ attempt'[c] = attempt[c] + 1
    BY <1>1 DEF Again, TypeOK
  <1> QED
    BY <1>2, <1>3, <1>4, QuietStep

\* The scan awaits a record with the text of its own prompt: one record less is
\* free, and one callback less has yet to find one.
LEMMA ScanKeeps ==
    ASSUME ApprovedInv, TypeOK', NEW c \in Calls, Scan(c)
    PROVE  ApprovedInv'
  <1> USE DEF ApprovedInv
  <1>1. st[c] = "publishing"
    BY DEF Scan
  <1>2. Pending # {} /\ Matching(c) # {}
    BY <1>1, PublisherFinds
  <1>3. PICK p \in Prompts : /\ awaits' = [awaits EXCEPT ![c] = p]
                             /\ Live(p) /\ Message(p) = AskedOf(c)
    <2> DEFINE p == Newest(IF Matching(c) # {} THEN Matching(c) ELSE Pending)
    <2>1. awaits' = [awaits EXCEPT ![c] = p]
      BY <1>2 DEF Scan
    <2> HIDE DEF p
    <2>2. p \in Prompts /\ Live(p) /\ Message(p) = AskedOf(c)
      BY <1>2, ScanFinds DEF p
    <2> QED
      BY <2>1, <2>2
  <1>4. /\ UNCHANGED <<order, future, project, disk, session, attempt, approved>>
        /\ st'[c] = "waiting" /\ awaits'[c] = p
        /\ \A b \in Calls \ {c} : st'[b] = st[b] /\ awaits'[b] = awaits[b]
    BY <1>2, <1>3 DEF Scan, TypeOK, cardVars, grantVars
  <1>5. Fresh'
    BY <1>4, PromptParts DEF Fresh, InOrder
  <1>6. AwaitsItsText'
    BY <1>3, <1>4 DEF AwaitsItsText, Live
  <1>7. EnoughRecords'
    <2> SUFFICES ASSUME NEW m \in Tasks \X Actions
                 PROVE  Cardinality(Publishing(m)') <= Cardinality(Free(m)')
      BY DEF EnoughRecords
    <2>1. Cardinality(Publishing(m)) <= Cardinality(Free(m))
      BY DEF EnoughRecords
    <2>2. Free(m) \ {p} \subseteq Free(m)'
      BY <1>4 DEF Free, Live, InOrder
    <2>3. Cardinality(Free(m) \ {p}) <= Cardinality(Free(m)')
      BY <2>2, CountTypes, FS_Subset
    <2>4. CASE m = AskedOf(c)
      <3>1. c \in Publishing(m) /\ Publishing(m)' = Publishing(m) \ {c}
        BY <1>1, <1>4, <2>4 DEF Publishing
      <3>2. Cardinality(Publishing(m)') = Cardinality(Publishing(m)) - 1
        BY <3>1, CountTypes, FS_RemoveElement
      <3>3. Cardinality(Free(m) \ {p}) \in {Cardinality(Free(m)) - 1, Cardinality(Free(m))}
        BY CountTypes, FS_RemoveElement
      <3> QED
        BY <2>1, <2>3, <3>2, <3>3, CountTypes
    <2>5. CASE m # AskedOf(c)
      <3>1. Publishing(m)' \subseteq Publishing(m)
        BY <1>4 DEF Publishing
      <3>2. Free(m) \ {p} = Free(m)
        BY <1>3, <2>5 DEF Free
      <3>3. Cardinality(Publishing(m)') <= Cardinality(Publishing(m))
        BY <3>1, CountTypes, FS_Subset
      <3> QED
        BY <2>1, <2>3, <3>2, <3>3, CountTypes
    <2> QED
      BY <2>4, <2>5
  <1>8. GrantsApproved'
    BY <1>4 DEF GrantsApproved
  <1>9. RunsOnlyApproved'
    BY <1>4 DEF RunsOnlyApproved
  <1> QED
    BY <1>5, <1>6, <1>7, <1>8, <1>9

\* A publication adds a callback and its own record, which is new.
LEMMA PublishKeeps ==
    ASSUME ApprovedInv, TypeOK', NEW c \in Calls, Authorize(c), ~Granted(ActionOf[c])
    PROVE  ApprovedInv'
  <1> USE DEF ApprovedInv
  <1> DEFINE p == Prompt(c)
  <1>1. p \in Prompts /\ p[1] = c /\ p[2] = attempt[c] /\ Message(p) = AskedOf(c)
    BY PromptTypes
  <1>2. future[p] = "none" /\ ~InOrder(p)
    BY <1>1 DEF Authorize, Fresh
  <1>3. order' = Append(order, p) /\ future' = [future EXCEPT ![p] = "pending"]
    BY DEF Authorize
  <1>4. /\ st[c] = "asking" /\ st'[c] = "publishing"
        /\ \A b \in Calls \ {c} : st'[b] = st[b]
        /\ UNCHANGED <<attempt, awaits, disk, project, approved>>
        /\ session' \subseteq session \cup disk
    BY DEF Authorize, TypeOK, Hydrate, Hydrated
  <1> HIDE DEF p
  <1>5. \A q : InOrder(q)' <=> InOrder(q) \/ q = p
    <2>1. /\ DOMAIN order' = 1..(Len(order) + 1)
          /\ \A i \in 1..Len(order) : order'[i] = order[i]
          /\ order'[Len(order) + 1] = p
          /\ DOMAIN order = 1..Len(order) /\ Len(order) \in Nat
      BY <1>1, <1>3, AppendProperties DEF TypeOK
    <2> QED
      BY <2>1 DEF InOrder
  <1>6. \A q \in Prompts : future'[q] = IF q = p THEN "pending" ELSE future[q]
    BY <1>3 DEF TypeOK
  <1>7. \A q \in Prompts : Live(q)' <=> Live(q) \/ q = p
    BY <1>5, <1>6 DEF Live
  <1>8. \A b \in Calls : awaits[b] # p
    <2>1. ASSUME NEW b \in Calls, awaits[b] = p
          PROVE  FALSE
      BY <2>1, <1>1, <1>2, PromptParts DEF AwaitsItsText, TypeOK
    <2> QED
      BY <2>1
  <1>9. Fresh'
    <2> SUFFICES ASSUME NEW q \in Prompts,
                        \/ q[2] > attempt'[q[1]]
                        \/ q[2] = attempt'[q[1]] /\ st'[q[1]] \in {"idle", "asking"}
                 PROVE  future'[q] = "none" /\ ~InOrder(q)'
      BY DEF Fresh
    <2>1. q[1] \in Calls /\ q[2] \in Nat /\ attempt[q[1]] \in Nat
      BY AttemptTypes
    <2>2. q # p
      BY <1>1, <1>4, <2>1
    <2>3. \/ q[2] > attempt[q[1]]
          \/ q[2] = attempt[q[1]] /\ st[q[1]] \in {"idle", "asking"}
      BY <1>4, <2>1
    <2> QED
      BY <1>5, <1>6, <2>2, <2>3 DEF Fresh
  <1>10. AwaitsItsText'
    <2> SUFFICES ASSUME NEW b \in Calls, st'[b] = "waiting"
                 PROVE  future'[awaits'[b]] # "none" /\ Message(awaits'[b]) = AskedOf(b)
      BY DEF AwaitsItsText
    <2>1. st[b] = "waiting" /\ awaits'[b] = awaits[b]
      BY <1>4
    <2>2. awaits[b] \in Prompts
      BY <2>1, PromptParts DEF TypeOK
    <2> QED
      BY <1>6, <2>1, <2>2 DEF AwaitsItsText
  <1>11. EnoughRecords'
    <2> SUFFICES ASSUME NEW m \in Tasks \X Actions
                 PROVE  Cardinality(Publishing(m)') <= Cardinality(Free(m)')
      BY DEF EnoughRecords
    <2>1. Cardinality(Publishing(m)) <= Cardinality(Free(m))
      BY DEF EnoughRecords
    <2>2. CASE m = AskedOf(c)
      <3>1. c \notin Publishing(m) /\ Publishing(m)' = Publishing(m) \cup {c}
        BY <1>4, <2>2 DEF Publishing
      <3>2. p \notin Free(m) /\ Free(m) \cup {p} \subseteq Free(m)'
        BY <1>1, <1>2, <1>4, <1>7, <1>8, <2>2 DEF Free, Live
      <3>3. Cardinality(Publishing(m)') = Cardinality(Publishing(m)) + 1
        BY <3>1, CountTypes, FS_AddElement
      <3>4. Cardinality(Free(m) \cup {p}) = Cardinality(Free(m)) + 1
        BY <3>2, CountTypes, FS_AddElement
      <3>5. Cardinality(Free(m) \cup {p}) <= Cardinality(Free(m)')
        BY <3>2, CountTypes, FS_Subset
      <3> QED
        BY <2>1, <3>3, <3>4, <3>5, CountTypes
    <2>3. CASE m # AskedOf(c)
      <3>1. Publishing(m)' \subseteq Publishing(m) /\ Free(m) \subseteq Free(m)'
        BY <1>4, <1>7, <2>3 DEF Publishing, Free
      <3>2. /\ Cardinality(Publishing(m)') <= Cardinality(Publishing(m))
            /\ Cardinality(Free(m)) <= Cardinality(Free(m)')
        BY <3>1, CountTypes, FS_Subset
      <3> QED
        BY <2>1, <3>2, CountTypes
    <2> QED
      BY <2>2, <2>3
  <1>12. GrantsApproved'
    BY <1>4, <1>6 DEF GrantsApproved
  <1>13. RunsOnlyApproved'
    BY <1>4 DEF RunsOnlyApproved
  <1> QED
    BY <1>9, <1>10, <1>11, <1>12, <1>13

LEMMA AuthorizeKeeps ==
    ASSUME ApprovedInv, TypeOK', NEW c \in Calls, Authorize(c)
    PROVE  ApprovedInv'
  <1>1. CASE ~Granted(ActionOf[c])
    BY <1>1, PublishKeeps
  <1>2. CASE Granted(ActionOf[c])
    <2>1. TypeOK
      BY DEF ApprovedInv
    <2>2. /\ UNCHANGED <<order, future, project, disk, awaits, attempt, approved>>
          /\ session' \subseteq session \cup disk
      BY <1>2 DEF Authorize, cardVars, Hydrate, Hydrated
    <2>3. st'[c] = "ran" /\ \A b \in Calls \ {c} : st'[b] = st[b]
      BY <1>2, <2>1 DEF Authorize, TypeOK
    <2>4. ActionOf[c] \in approved
      BY <1>2 DEF Granted, Hydrated, ApprovedInv, GrantsApproved
    <2> QED
      BY <2>2, <2>3, <2>4, QuietStep
  <1> QED
    BY <1>1, <1>2

\* A callback ends: the record it awaited, answered or cancelled, is no longer
\* live, and it was not free.
LEMMA AwaitedEnds ==
    ASSUME ApprovedInv, NEW c \in Calls, st[c] = "waiting",
           NEW p, p = awaits[c],
           order' = Without(p),
           \A q \in Prompts : q # p => future'[q] = future[q],
           future'[p] \notin {"none", "pending"},
           UNCHANGED attempt,
           awaits'[c] = NoPrompt, st'[c] \in {"ran", "rejected", "parked"},
           \A b \in Calls \ {c} : st'[b] = st[b] /\ awaits'[b] = awaits[b]
    PROVE  Fresh' /\ AwaitsItsText' /\ EnoughRecords'
  <1> USE DEF ApprovedInv
  <1>1. p \in Prompts
    BY PromptParts DEF TypeOK
  <1>2. \A q : InOrder(q)' => InOrder(q)
    BY WithoutProperties DEF InOrder
  <1>3. \A q : InOrder(q) /\ q # p => InOrder(q)'
    BY WithoutProperties DEF InOrder
  <1>4. future[p] # "none"
    BY DEF AwaitsItsText
  <1>5. Fresh'
    <2> SUFFICES ASSUME NEW q \in Prompts,
                        \/ q[2] > attempt'[q[1]]
                        \/ q[2] = attempt'[q[1]] /\ st'[q[1]] \in {"idle", "asking"}
                 PROVE  future'[q] = "none" /\ ~InOrder(q)'
      BY DEF Fresh
    <2>1. future[q] = "none" /\ ~InOrder(q)
      BY PromptParts DEF Fresh
    <2> QED
      BY <1>2, <1>4, <2>1
  <1>6. AwaitsItsText'
    <2> SUFFICES ASSUME NEW b \in Calls, st'[b] = "waiting"
                 PROVE  future'[awaits'[b]] # "none" /\ Message(awaits'[b]) = AskedOf(b)
      BY DEF AwaitsItsText
    <2>1. st[b] = "waiting" /\ awaits'[b] = awaits[b]
      OBVIOUS
    <2>2. awaits[b] \in Prompts
      BY <2>1, PromptParts DEF TypeOK
    <2> QED
      BY <2>1, <2>2 DEF AwaitsItsText
  <1>7. EnoughRecords'
    <2>1. \A m : Publishing(m)' \subseteq Publishing(m)
      BY DEF Publishing
    <2>2. ASSUME NEW m, NEW q \in Free(m)
          PROVE  q \in Free(m)'
      <3>1. q \in Prompts /\ q # p /\ Live(q) /\ Message(q) = m /\ \A b \in Calls : awaits[b] # q
        BY DEF Free
      <3>2. Live(q)'
        BY <1>3, <3>1 DEF Live
      <3>3. \A b \in Calls : awaits'[b] # q
        BY <3>1, PromptParts
      <3> QED
        BY <3>1, <3>2, <3>3 DEF Free
    <2> QED
      BY <2>1, <2>2, EnoughKept
  <1> QED
    BY <1>5, <1>6, <1>7

\* The reply was given to a record with the text of the call, so for its action.
LEMMA RepliedKeeps ==
    ASSUME ApprovedInv, TypeOK', SessionGrantsStored, NEW c \in Calls, Replied(c)
    PROVE  ApprovedInv'
  <1> USE DEF ApprovedInv
  <1> DEFINE p == awaits[c]
             r == future[p]
  <1>1. st[c] = "waiting" /\ p \in Prompts /\ r \in Replies
    BY PromptParts DEF Replied, TypeOK
  <1>2. ActionOf[CallOf(p)] = ActionOf[c]
    BY <1>1 DEF AwaitsItsText, Message, AskedOf
  <1>3. /\ order' = Without(p) /\ UNCHANGED <<future, attempt, approved>>
        /\ Grant(r, ActionOf[c])
        /\ awaits'[c] = NoPrompt
        /\ st'[c] = IF r = "deny" THEN "rejected" ELSE "ran"
        /\ \A b \in Calls \ {c} : st'[b] = st[b] /\ awaits'[b] = awaits[b]
    BY DEF Replied, TypeOK
  <1> HIDE DEF p, r
  <1>4. Fresh' /\ AwaitsItsText' /\ EnoughRecords'
    <2>1. future'[p] \notin {"none", "pending"}
      BY <1>1, <1>3 DEF r
    <2>2. p = awaits[c]
      BY DEF p
    <2> QED
      BY <1>1, <1>3, <2>1, <2>2, AwaitedEnds
  <1>5. Covered(r, ActionOf[c]) \subseteq approved
    BY <1>1, <1>2 DEF GrantsApproved, r
  <1>6. GrantsApproved'
    <2>1. session' \cup disk' \cup project' \subseteq
              session \cup disk \cup project \cup Covered(r, ActionOf[c])
      BY <1>1, <1>3, GrantEffect, ApprovalsAssumption
    <2> QED
      BY <1>3, <1>5, <2>1 DEF GrantsApproved
  <1>7. RunsOnlyApproved'
    <2>1. r # "deny" => ActionOf[c] \in approved
      <3>1. r # "deny" => ActionOf[c] \in Covered(r, ActionOf[c])
        BY <1>1, ApprovalsAssumption DEF Covered, Family
      <3> QED
        BY <1>5, <3>1
    <2> QED
      BY <1>3, <2>1 DEF RunsOnlyApproved
  <1> QED
    BY <1>4, <1>6, <1>7

LEMMA ExpireKeeps ==
    ASSUME ApprovedInv, TypeOK', NEW c \in Calls, Expire(c)
    PROVE  ApprovedInv'
  <1> USE DEF ApprovedInv
  <1> DEFINE p == awaits[c]
  <1>1. st[c] = "waiting" /\ p \in Prompts /\ future[p] = "pending"
    BY PromptParts DEF Expire, TypeOK
  <1>2. /\ order' = Without(p) /\ UNCHANGED <<attempt, approved, session, disk, project>>
        /\ future'[p] = "cancelled" /\ \A q \in Prompts : q # p => future'[q] = future[q]
        /\ awaits'[c] = NoPrompt /\ st'[c] = "parked"
        /\ \A b \in Calls \ {c} : st'[b] = st[b] /\ awaits'[b] = awaits[b]
    BY <1>1 DEF Expire, TypeOK, grantVars
  <1> HIDE DEF p
  <1>3. Fresh' /\ AwaitsItsText' /\ EnoughRecords'
    <2>1. p = awaits[c]
      BY DEF p
    <2> QED
      BY <1>1, <1>2, <2>1, AwaitedEnds
  <1>4. GrantsApproved'
    BY <1>2 DEF GrantsApproved
  <1>5. RunsOnlyApproved'
    BY <1>2 DEF RunsOnlyApproved
  <1> QED
    BY <1>3, <1>4, <1>5

\* A click answers the prompts its reply covers, and approves what they cover.
LEMMA ClickKeeps ==
    ASSUME ApprovedInv, TypeOK', ~ClicksDuringPublish,
           NEW p \in Prompts, NEW r \in Replies, Click(p, r)
    PROVE  ApprovedInv'
  <1> USE DEF ApprovedInv
  <1> DEFINE answered == {p} \cup Related(p, r)
  <1>1. /\ UNCHANGED <<order, st, attempt, awaits, session, disk, project>>
        /\ \A q \in Prompts : future'[q] = IF q \in answered THEN r ELSE future[q]
        /\ approved' = approved \cup Covered(r, ActionOf[CallOf(p)])
    BY DEF Click, callVars, grantVars
  <1>2. \A q \in answered : future[q] = "pending"
    BY DEF Click, Related, LivePrompt, Pending
  <1>3. \A q \in answered : Covered(r, ActionOf[CallOf(q)]) = Covered(r, ActionOf[CallOf(p)])
    <2>1. ASSUME NEW q \in Related(p, r)
          PROVE  Covered(r, ActionOf[CallOf(q)]) = Covered(r, ActionOf[CallOf(p)])
      BY DEF Related, Covered, Family
    <2> QED
      BY <2>1
  <1> HIDE DEF answered
  <1>4. Fresh'
    BY <1>1, <1>2 DEF Fresh, InOrder
  <1>5. AwaitsItsText'
    <2> SUFFICES ASSUME NEW b \in Calls, st[b] = "waiting"
                 PROVE  future'[awaits[b]] # "none" /\ Message(awaits[b]) = AskedOf(b)
      BY <1>1 DEF AwaitsItsText
    <2>1. awaits[b] \in Prompts
      BY PromptParts DEF TypeOK
    <2> QED
      BY <1>1, <2>1 DEF AwaitsItsText
  <1>6. EnoughRecords'
    <2>1. \A m : Publishing(m)' = {}
      BY <1>1, ClickAlone DEF Click, Publishing
    <2> SUFFICES ASSUME NEW m \in Tasks \X Actions
                 PROVE  Cardinality(Publishing(m)') <= Cardinality(Free(m)')
      BY DEF EnoughRecords
    <2>2. Cardinality(Publishing(m)') = 0
      BY <2>1, FS_EmptySet
    <2> QED
      BY <2>2, CountTypes
  <1>7. GrantsApproved'
    <2>1. session' \cup disk' \cup project' \subseteq approved'
      BY <1>1 DEF GrantsApproved
    <2>2. ASSUME NEW q \in Prompts, future'[q] \in Replies
          PROVE  Covered(future'[q], ActionOf[CallOf(q)]) \subseteq approved'
      <3>1. CASE q \in answered
        BY <1>1, <1>3, <3>1
      <3>2. CASE q \notin answered
        BY <1>1, <2>2, <3>2 DEF GrantsApproved
      <3> QED
        BY <3>1, <3>2
    <2> QED
      BY <2>1, <2>2 DEF GrantsApproved
  <1>8. RunsOnlyApproved'
    BY <1>1 DEF RunsOnlyApproved
  <1> QED
    BY <1>4, <1>5, <1>6, <1>7, <1>8

LEMMA ClickExpiredKeeps ==
    ASSUME ApprovedInv, TypeOK', SessionGrantsStored, ~ClicksDuringPublish,
           NEW p \in Prompts, NEW r \in Replies, ClickExpired(p, r)
    PROVE  ApprovedInv'
  <1> USE DEF ApprovedInv
  <1>1. /\ UNCHANGED <<order, future, awaits>>
        /\ Grant(r, ActionOf[CallOf(p)])
        /\ approved' = approved \cup Covered(r, ActionOf[CallOf(p)])
    BY DEF ClickExpired
  <1>2. \A c \in Calls :
            \/ st'[c] = st[c] /\ attempt'[c] = attempt[c]
            \/ st[c] = "parked" /\ st'[c] = "idle" /\ attempt'[c] = attempt[c] + 1
            \/ st[c] = "parked" /\ st'[c] = "rejected" /\ attempt'[c] = attempt[c]
    BY DEF ClickExpired
  <1>3. Fresh'
    <2> SUFFICES ASSUME NEW q \in Prompts,
                        \/ q[2] > attempt'[q[1]]
                        \/ q[2] = attempt'[q[1]] /\ st'[q[1]] \in {"idle", "asking"}
                 PROVE  future'[q] = "none" /\ ~InOrder(q)'
      BY DEF Fresh
    <2>1. q[1] \in Calls /\ q[2] \in Nat /\ attempt[q[1]] \in Nat
      BY AttemptTypes
    <2>2. \/ q[2] > attempt[q[1]]
          \/ q[2] = attempt[q[1]] /\ st[q[1]] \in {"idle", "asking"}
      BY <1>2, <2>1
    <2> QED
      BY <1>1, <2>2 DEF Fresh, InOrder
  <1>4. AwaitsItsText'
    BY <1>1, <1>2 DEF AwaitsItsText
  <1>5. EnoughRecords'
    <2>1. \A m : Publishing(m)' = {}
      BY <1>2, ClickAlone DEF ClickExpired, Publishing
    <2> SUFFICES ASSUME NEW m \in Tasks \X Actions
                 PROVE  Cardinality(Publishing(m)') <= Cardinality(Free(m)')
      BY DEF EnoughRecords
    <2>2. Cardinality(Publishing(m)') = 0
      BY <2>1, FS_EmptySet
    <2> QED
      BY <2>2, CountTypes
  <1>6. GrantsApproved'
    <2>1. session' \cup disk' \cup project' \subseteq
              session \cup disk \cup project \cup Covered(r, ActionOf[CallOf(p)])
      BY <1>1, GrantEffect, PromptParts
    <2> QED
      BY <1>1, <2>1 DEF GrantsApproved
  <1>7. RunsOnlyApproved'
    BY <1>1, <1>2 DEF RunsOnlyApproved
  <1> QED
    BY <1>3, <1>4, <1>5, <1>6, <1>7

LEMMA RestartKeeps ==
    ASSUME ApprovedInv, TypeOK', Restart
    PROVE  ApprovedInv'
  <1> USE DEF ApprovedInv
  <1>1. /\ order' = <<>> /\ \A q \in Prompts : future'[q] = "none"
        /\ session' = {} /\ UNCHANGED <<attempt, disk, project, approved>>
        /\ \A c \in Calls : st'[c] = IF st[c] \in Asking THEN "lost" ELSE st[c]
    BY DEF Restart
  <1>2. Fresh'
    BY <1>1 DEF Fresh, InOrder
  <1>3. AwaitsItsText'
    BY <1>1 DEF AwaitsItsText
  <1>4. EnoughRecords'
    <2>1. \A m : Publishing(m)' = {}
      BY <1>1 DEF Publishing
    <2> SUFFICES ASSUME NEW m \in Tasks \X Actions
                 PROVE  Cardinality(Publishing(m)') <= Cardinality(Free(m)')
      BY DEF EnoughRecords
    <2>2. Cardinality(Publishing(m)') = 0
      BY <2>1, FS_EmptySet
    <2> QED
      BY <2>2, CountTypes
  <1>5. GrantsApproved'
    BY <1>1 DEF GrantsApproved
  <1>6. RunsOnlyApproved'
    BY <1>1 DEF RunsOnlyApproved
  <1> QED
    BY <1>2, <1>3, <1>4, <1>5, <1>6

-----------------------------------------------------------------------------
(* What every step keeps: a parked call has its card. *)

\* Who shows the same prompt does not change.
LEMMA AliasedIsFixed ==
    ASSUME TypeOK, TypeOK'
    PROVE  \A c \in Calls : /\ Aliased(c)' <=> Aliased(c)
                            /\ ~Aliased(c) => \A b \in Calls \ {c} : AskedOf(b) # AskedOf(c)
  <1>1. ASSUME NEW c \in Calls
        PROVE  Message(Prompt(c)) = AskedOf(c) /\ Message(Prompt(c)') = AskedOf(c)
    BY DEF Message, Prompt, CallOf, AskedOf
  <1> QED
    BY <1>1 DEF Aliased, Message, CallOf, Prompt

LEMMA MessageOfPrompt ==
    ASSUME NEW p \in Prompts
    PROVE  Message(p) = AskedOf(CallOf(p))
  BY DEF Message, AskedOf

\* A step that leaves the records, the cards and the waits alone.
LEMMA QuietCardStep ==
    ASSUME CardInv, ApprovedInv', UNCHANGED <<order, future, card, awaits>>,
           NEW c \in Calls, st[c] \notin {"publishing", "waiting"},
           \A b \in Calls \ {c} : st'[b] = st[b] /\ attempt'[b] = attempt[b],
           st'[c] \notin {"waiting", "parked"}
    PROVE  CardInv'
  <1> USE DEF CardInv
  <1>1. TypeOK /\ TypeOK'
    BY DEF ApprovedInv
  <1>2. PendingListed'
    BY DEF PendingListed, InOrder
  <1>3. OwnRecord'
    <2> SUFFICES ASSUME NEW p \in Prompts, Live(p)', ~Aliased(CallOf(p))'
                 PROVE  /\ p = Prompt(CallOf(p))'
                        /\ st'[CallOf(p)] \in {"publishing", "waiting"}
                        /\ card'[p] = "pending"
      BY DEF OwnRecord
    <2>1. Live(p) /\ ~Aliased(CallOf(p)) /\ CallOf(p) \in Calls
      BY <1>1, AliasedIsFixed, PromptParts DEF Live, InOrder
    <2>2. CallOf(p) # c
      BY <2>1 DEF OwnRecord
    <2> QED
      BY <2>1, <2>2 DEF OwnRecord, Prompt
  <1>4. AwaitsOwn'
    BY <1>1, AliasedIsFixed DEF AwaitsOwn, Prompt
  <1>5. ParkedHasCard'
    BY <1>1, AliasedIsFixed DEF ParkedHasCard, Prompt
  <1> QED
    BY <1>2, <1>3, <1>4, <1>5

LEMMA PredictKeepsCards ==
    ASSUME CardInv, ApprovedInv', NEW c \in Calls, Predict(c)
    PROVE  CardInv'
  <1>1. TypeOK
    BY DEF CardInv, ApprovedInv
  <1>2. UNCHANGED <<order, future, card, awaits, attempt>> /\ st[c] = "idle"
    BY DEF Predict, cardVars
  <1>3. st'[c] \in {"refused", "ran", "asking"} /\ \A b \in Calls \ {c} : st'[b] = st[b]
    BY <1>1 DEF Predict, TypeOK
  <1> QED
    BY <1>2, <1>3, QuietCardStep

LEMMA AgainKeepsCards ==
    ASSUME CardInv, ApprovedInv', NEW c \in Calls, Again(c)
    PROVE  CardInv'
  <1>1. TypeOK
    BY DEF CardInv, ApprovedInv
  <1>2. UNCHANGED <<order, future, card, awaits>> /\ st[c] \in Over
    BY DEF Again, cardVars
  <1>3. st'[c] = "idle" /\ \A b \in Calls \ {c} : st'[b] = st[b] /\ attempt'[b] = attempt[b]
    BY <1>1 DEF Again, TypeOK
  <1> QED
    BY <1>2, <1>3, QuietCardStep

LEMMA AuthorizeKeepsCards ==
    ASSUME CardInv, ApprovedInv', NEW c \in Calls, Authorize(c)
    PROVE  CardInv'
  <1> USE DEF CardInv
  <1>1. TypeOK /\ TypeOK'
    BY DEF ApprovedInv
  <1>2. CASE Granted(ActionOf[c])
    <2>1. UNCHANGED <<order, future, card, awaits, attempt>> /\ st[c] = "asking"
      BY <1>2 DEF Authorize, cardVars
    <2>2. st'[c] = "ran" /\ \A b \in Calls \ {c} : st'[b] = st[b]
      BY <1>1, <1>2 DEF Authorize, TypeOK
    <2> QED
      BY <2>1, <2>2, QuietCardStep
  <1>3. CASE ~Granted(ActionOf[c])
    <2> DEFINE p == Prompt(c)
    <2>1. p \in Prompts /\ CallOf(p) = c
      BY <1>1, PromptTypes DEF CallOf
    <2>2. order' = Append(order, p)
      BY <1>3 DEF Authorize
    <2>3. /\ UNCHANGED <<attempt, awaits>>
          /\ st[c] = "asking" /\ st'[c] = "publishing"
          /\ \A b \in Calls \ {c} : st'[b] = st[b]
          /\ \A q \in Prompts : future'[q] = IF q = p THEN "pending" ELSE future[q]
          /\ \A q \in Prompts : card'[q] = IF q = p THEN "pending" ELSE card[q]
      BY <1>1, <1>3, <2>1 DEF Authorize, TypeOK
    <2>4. Prompt(c)' = p /\ \A b \in Calls : Prompt(b)' = Prompt(b)
      BY <2>3 DEF Prompt
    <2> HIDE DEF p
    <2>5. \A q : InOrder(q)' <=> InOrder(q) \/ q = p
      <3>1. /\ DOMAIN order' = 1..(Len(order) + 1)
            /\ \A i \in 1..Len(order) : order'[i] = order[i]
            /\ order'[Len(order) + 1] = p
            /\ DOMAIN order = 1..Len(order) /\ Len(order) \in Nat
        BY <1>1, <2>1, <2>2, AppendProperties DEF TypeOK
      <3> QED
        BY <3>1 DEF InOrder
    <2>6. PendingListed'
      BY <2>3, <2>5 DEF PendingListed
    <2>7. OwnRecord'
      <3> SUFFICES ASSUME NEW q \in Prompts, Live(q)', ~Aliased(CallOf(q))'
                   PROVE  /\ q = Prompt(CallOf(q))'
                          /\ st'[CallOf(q)] \in {"publishing", "waiting"}
                          /\ card'[q] = "pending"
        BY DEF OwnRecord
      <3>1. CASE q = p
        BY <3>1, <2>1, <2>3, <2>4
      <3>2. CASE q # p
        <4>1. Live(q) /\ ~Aliased(CallOf(q)) /\ CallOf(q) \in Calls
          BY <3>2, <1>1, <2>3, <2>5, AliasedIsFixed, PromptParts DEF Live
        <4> QED
          BY <4>1, <3>2, <2>3, <2>4 DEF OwnRecord
      <3> QED
        BY <3>1, <3>2
    <2>8. AwaitsOwn'
      BY <1>1, <2>3, <2>4, AliasedIsFixed DEF AwaitsOwn
    <2>9. ParkedHasCard'
      <3> SUFFICES ASSUME NEW b \in Calls, st'[b] = "parked", ~Aliased(b)'
                   PROVE  card'[Prompt(b)'] = "pending"
        BY DEF ParkedHasCard
      <3>1. st[b] = "parked" /\ ~Aliased(b) /\ Prompt(b) \in Prompts
        BY <1>1, <2>3, AliasedIsFixed, PromptTypes
      <3> QED
        BY <3>1, <2>3, <2>4 DEF ParkedHasCard
    <2> QED
      BY <2>6, <2>7, <2>8, <2>9
  <1> QED
    BY <1>2, <1>3

LEMMA ScanKeepsCards ==
    ASSUME CardInv, ApprovedInv', NEW c \in Calls, Scan(c)
    PROVE  CardInv'
  <1> USE DEF CardInv
  <1>1. TypeOK /\ TypeOK'
    BY DEF ApprovedInv
  <1>2. Pending # {} /\ Matching(c) # {}
    BY <1>1, PublisherFinds DEF ApprovedInv, Scan
  <1>3. PICK p \in Prompts : /\ awaits' = [awaits EXCEPT ![c] = p]
                             /\ Live(p) /\ Message(p) = AskedOf(c)
    <2> DEFINE p == Newest(IF Matching(c) # {} THEN Matching(c) ELSE Pending)
    <2>1. awaits' = [awaits EXCEPT ![c] = p]
      BY <1>2 DEF Scan
    <2> HIDE DEF p
    <2>2. p \in Prompts /\ Live(p) /\ Message(p) = AskedOf(c)
      BY <1>1, <1>2, ScanFinds DEF p
    <2> QED
      BY <2>1, <2>2
  <1>4. /\ UNCHANGED <<order, future, card, attempt>>
        /\ st[c] = "publishing" /\ st'[c] = "waiting" /\ awaits'[c] = p
        /\ \A b \in Calls \ {c} : st'[b] = st[b] /\ awaits'[b] = awaits[b]
    BY <1>1, <1>2, <1>3 DEF Scan, TypeOK, cardVars
  <1>5. PendingListed'
    BY <1>4 DEF PendingListed, InOrder
  <1>6. OwnRecord'
    BY <1>1, <1>4, AliasedIsFixed, PromptParts DEF OwnRecord, Live, InOrder, Prompt
  <1>7. AwaitsOwn'
    <2>1. ~Aliased(c) => p = Prompt(c)
      BY <1>1, <1>3, AliasedIsFixed, MessageOfPrompt, PromptParts DEF OwnRecord
    <2> QED
      BY <1>1, <1>4, <2>1, AliasedIsFixed DEF AwaitsOwn, Prompt
  <1>8. ParkedHasCard'
    BY <1>1, <1>4, AliasedIsFixed DEF ParkedHasCard, Prompt
  <1> QED
    BY <1>5, <1>6, <1>7, <1>8

\* A callback ends with its record; its card is closed unless it parks.
LEMMA AwaitedEndsCards ==
    ASSUME CardInv, ApprovedInv', NEW c \in Calls, st[c] = "waiting",
           NEW p, p = awaits[c],
           order' \in {order, Without(p)},
           \A q \in Prompts : q # p => future'[q] = future[q],
           future'[p] # "pending",
           UNCHANGED attempt,
           awaits'[c] = NoPrompt,
           \A b \in Calls \ {c} : st'[b] = st[b] /\ awaits'[b] = awaits[b],
           \A q \in Prompts \ {Prompt(c)} : card'[q] = card[q],
           \/ st'[c] \in {"ran", "rejected", "dead"}
           \/ st'[c] = "parked" /\ future[p] = "pending" /\ card'[Prompt(c)] = card[Prompt(c)]
    PROVE  CardInv'
  <1> USE DEF CardInv
  <1>1. TypeOK /\ TypeOK' /\ p \in Prompts
    <2>1. TypeOK /\ TypeOK'
      BY DEF ApprovedInv
    <2> QED
      BY <2>1 DEF TypeOK
  <1>2. /\ \A q : InOrder(q)' => InOrder(q)
        /\ \A q : InOrder(q) /\ q # p => InOrder(q)'
    <2>1. CASE order' = order
      BY <2>1 DEF InOrder
    <2>2. CASE order' = Without(p)
      BY <1>1, <2>2, WithoutProperties DEF InOrder
    <2> QED
      BY <2>1, <2>2
  <1>3. \A b \in Calls : Prompt(b)' = Prompt(b)
    BY DEF Prompt
  <1>4. \A q \in Prompts : Live(q)' => Live(q) /\ q # p
    BY <1>2 DEF Live
  <1>5. PendingListed'
    BY <1>2 DEF PendingListed
  <1>6. OwnRecord'
    <2> SUFFICES ASSUME NEW q \in Prompts, Live(q)', ~Aliased(CallOf(q))'
                 PROVE  /\ q = Prompt(CallOf(q))'
                        /\ st'[CallOf(q)] \in {"publishing", "waiting"}
                        /\ card'[q] = "pending"
      BY DEF OwnRecord
    <2>1. Live(q) /\ q # p /\ ~Aliased(CallOf(q)) /\ CallOf(q) \in Calls
      BY <1>1, <1>4, AliasedIsFixed, PromptParts
    <2>2. q = Prompt(CallOf(q)) /\ st[CallOf(q)] \in {"publishing", "waiting"} /\ card[q] = "pending"
      BY <2>1 DEF OwnRecord
    <2>3. CallOf(q) # c
      BY <2>1, <2>2 DEF AwaitsOwn
    <2>4. q # Prompt(c)
      BY <2>3, <1>1, PromptTypes DEF CallOf
    <2> QED
      BY <2>1, <2>2, <2>3, <2>4, <1>3
  <1>7. AwaitsOwn'
    BY <1>1, <1>3, AliasedIsFixed DEF AwaitsOwn
  <1>8. ParkedHasCard'
    <2> SUFFICES ASSUME NEW b \in Calls, st'[b] = "parked", ~Aliased(b)'
                 PROVE  card'[Prompt(b)'] = "pending"
      BY DEF ParkedHasCard
    <2>1. ~Aliased(b) /\ Prompt(b) \in Prompts /\ Prompt(b)[1] = b /\ Prompt(c)[1] = c
      BY <1>1, AliasedIsFixed, PromptTypes
    <2>2. CASE b = c
      <3>1. p = Prompt(c) /\ Live(p) /\ CallOf(p) = c
        BY <2>1, <2>2, <1>1 DEF AwaitsOwn, PendingListed, Live, CallOf
      <3> QED
        BY <3>1, <2>1, <2>2, <1>1, <1>3 DEF OwnRecord
    <2>3. CASE b # c
      BY <2>1, <2>3, <1>3 DEF ParkedHasCard
    <2> QED
      BY <2>2, <2>3
  <1> QED
    BY <1>5, <1>6, <1>7, <1>8

LEMMA RepliedKeepsCards ==
    ASSUME CardInv, ApprovedInv', NEW c \in Calls, Replied(c)
    PROVE  CardInv'
  <1>1. TypeOK
    BY DEF CardInv, ApprovedInv
  <1> DEFINE p == awaits[c]
  <1>2. st[c] = "waiting" /\ order' = Without(p) /\ UNCHANGED <<attempt, future>>
    BY DEF Replied
  <1>3. future'[p] # "pending"
    BY DEF Replied
  <1>4. awaits'[c] = NoPrompt /\ st'[c] \in {"ran", "rejected"}
    BY <1>1 DEF Replied, TypeOK
  <1>5. \A b \in Calls \ {c} : st'[b] = st[b] /\ awaits'[b] = awaits[b]
    BY <1>1 DEF Replied, TypeOK
  <1>6. \A q \in Prompts \ {Prompt(c)} : card'[q] = card[q]
    BY <1>1 DEF Replied, TypeOK
  <1> QED
    BY <1>2, <1>3, <1>4, <1>5, <1>6, AwaitedEndsCards

LEMMA ExpireKeepsCards ==
    ASSUME CardInv, ApprovedInv', NEW c \in Calls, Expire(c)
    PROVE  CardInv'
  <1>1. TypeOK
    BY DEF CardInv, ApprovedInv
  <1> DEFINE p == awaits[c]
  <1>2. st[c] = "waiting" /\ order' = Without(p) /\ UNCHANGED <<attempt, card>>
        /\ future[p] = "pending"
    BY DEF Expire
  <1>3. p \in Prompts
    BY <1>1, <1>2 DEF TypeOK
  <1>4. future'[p] = "cancelled" /\ \A q \in Prompts : q # p => future'[q] = future[q]
    BY <1>1, <1>3 DEF Expire, TypeOK
  <1>5. awaits'[c] = NoPrompt /\ st'[c] = "parked"
    BY <1>1 DEF Expire, TypeOK
  <1>6. \A b \in Calls \ {c} : st'[b] = st[b] /\ awaits'[b] = awaits[b]
    BY <1>1 DEF Expire, TypeOK
  <1> QED
    BY <1>2, <1>4, <1>5, <1>6, AwaitedEndsCards

LEMMA CancelledKeepsCards ==
    ASSUME CardInv, ApprovedInv', NEW c \in Calls, CancelledByOther(c)
    PROVE  CardInv'
  <1>1. TypeOK
    BY DEF CardInv, ApprovedInv
  <1> DEFINE p == awaits[c]
  <1>2. st[c] = "waiting" /\ UNCHANGED <<order, attempt, card, future>> /\ future'[p] # "pending"
    BY DEF CancelledByOther, cardVars
  <1>3. awaits'[c] = NoPrompt /\ st'[c] = "dead"
    BY <1>1 DEF CancelledByOther, TypeOK
  <1>4. \A b \in Calls \ {c} : st'[b] = st[b] /\ awaits'[b] = awaits[b]
    BY <1>1 DEF CancelledByOther, TypeOK
  <1> QED
    BY <1>2, <1>3, <1>4, AwaitedEndsCards

LEMMA ClickKeepsCards ==
    ASSUME CardInv, ApprovedInv', NEW p \in Prompts, NEW r \in Replies, Click(p, r)
    PROVE  CardInv'
  <1> USE DEF CardInv
  <1> DEFINE answered == {p} \cup Related(p, r)
  <1>1. TypeOK /\ TypeOK'
    BY DEF ApprovedInv
  <1>2. /\ UNCHANGED <<order, st, attempt, awaits>>
        /\ \A q \in Prompts : future'[q] = IF q \in answered THEN r ELSE future[q]
        /\ \A q \in Prompts : card'[q] = IF q \in answered THEN "closed" ELSE card[q]
    BY DEF Click, callVars
  <1>3. \A q \in answered : Live(q)
    BY DEF Click, Related, LivePrompt, Pending, Live, InOrder
  <1> HIDE DEF answered
  <1>4. PendingListed'
    BY <1>2 DEF PendingListed, InOrder
  <1>5. OwnRecord'
    <2> SUFFICES ASSUME NEW q \in Prompts, Live(q)', ~Aliased(CallOf(q))'
                 PROVE  /\ q = Prompt(CallOf(q))'
                        /\ st'[CallOf(q)] \in {"publishing", "waiting"}
                        /\ card'[q] = "pending"
      BY DEF OwnRecord
    <2>1. q \notin answered
      BY <1>2 DEF Live
    <2>2. Live(q) /\ ~Aliased(CallOf(q))
      BY <1>1, <1>2, <2>1, AliasedIsFixed, PromptParts DEF Live, InOrder
    <2> QED
      BY <1>2, <2>1, <2>2 DEF OwnRecord, Prompt
  <1>6. AwaitsOwn'
    BY <1>1, <1>2, AliasedIsFixed DEF AwaitsOwn, Prompt
  <1>7. ParkedHasCard'
    <2> SUFFICES ASSUME NEW b \in Calls, st[b] = "parked", ~Aliased(b)
                 PROVE  card'[Prompt(b)] = "pending"
      BY <1>1, <1>2, AliasedIsFixed DEF ParkedHasCard, Prompt
    <2>1. Prompt(b) \in Prompts /\ CallOf(Prompt(b)) = b
      BY <1>1, PromptTypes DEF CallOf
    <2>2. Prompt(b) \notin answered
      BY <1>3, <2>1 DEF OwnRecord
    <2> QED
      BY <1>2, <2>1, <2>2 DEF ParkedHasCard
  <1> QED
    BY <1>4, <1>5, <1>6, <1>7

LEMMA ClickExpiredKeepsCards ==
    ASSUME CardInv, ApprovedInv', NEW p \in Prompts, NEW r \in Replies, ClickExpired(p, r)
    PROVE  CardInv'
  <1> USE DEF CardInv
  <1>1. TypeOK /\ TypeOK'
    BY DEF ApprovedInv
  <1>2. /\ UNCHANGED <<order, future, awaits>>
        /\ \A q \in Prompts : q # p => card'[q] = card[q]
    BY <1>1 DEF ClickExpired, TypeOK
  <1>3. \A c \in Calls :
            \/ st'[c] = st[c] /\ attempt'[c] = attempt[c]
               /\ (TaskOf[c] = TaskOf[CallOf(p)] => st[c] # "parked")
            \/ st[c] = "parked" /\ st'[c] \in {"idle", "rejected"}
    BY DEF ClickExpired
  <1>4. ~Live(p)
    BY DEF ClickExpired, LivePrompt, Pending, Live, InOrder
  <1>5. PendingListed'
    BY <1>2 DEF PendingListed, InOrder
  <1>6. OwnRecord'
    <2> SUFFICES ASSUME NEW q \in Prompts, Live(q)', ~Aliased(CallOf(q))'
                 PROVE  /\ q = Prompt(CallOf(q))'
                        /\ st'[CallOf(q)] \in {"publishing", "waiting"}
                        /\ card'[q] = "pending"
      BY DEF OwnRecord
    <2>1. Live(q) /\ ~Aliased(CallOf(q)) /\ CallOf(q) \in Calls
      BY <1>1, <1>2, AliasedIsFixed, PromptParts DEF Live, InOrder
    <2>2. q # p
      BY <1>4, <2>1
    <2>3. q = Prompt(CallOf(q)) /\ st[CallOf(q)] \in {"publishing", "waiting"} /\ card[q] = "pending"
      BY <2>1 DEF OwnRecord
    <2>4. st'[CallOf(q)] = st[CallOf(q)] /\ attempt'[CallOf(q)] = attempt[CallOf(q)]
      BY <1>3, <2>1, <2>3
    <2> QED
      BY <1>2, <2>2, <2>3, <2>4 DEF Prompt
  <1>7. AwaitsOwn'
    <2> SUFFICES ASSUME NEW c \in Calls, st'[c] = "waiting", ~Aliased(c)'
                 PROVE  awaits'[c] = Prompt(c)'
      BY DEF AwaitsOwn
    <2>1. st[c] = "waiting" /\ attempt'[c] = attempt[c] /\ ~Aliased(c)
      BY <1>1, <1>3, AliasedIsFixed
    <2> QED
      BY <1>2, <2>1 DEF AwaitsOwn, Prompt
  <1>8. ParkedHasCard'
    <2> SUFFICES ASSUME NEW b \in Calls, st'[b] = "parked", ~Aliased(b)'
                 PROVE  card'[Prompt(b)'] = "pending"
      BY DEF ParkedHasCard
    <2>1. /\ st[b] = "parked" /\ attempt'[b] = attempt[b] /\ ~Aliased(b)
          /\ TaskOf[b] # TaskOf[CallOf(p)]
      BY <1>1, <1>3, AliasedIsFixed
    <2>2. Prompt(b)' = Prompt(b) /\ Prompt(b) \in Prompts /\ CallOf(Prompt(b)) = b
      BY <1>1, <2>1, PromptTypes DEF CallOf, Prompt
    <2>3. Prompt(b) # p
      BY <2>1, <2>2
    <2> QED
      BY <1>2, <2>1, <2>2, <2>3 DEF ParkedHasCard
  <1> QED
    BY <1>5, <1>6, <1>7, <1>8

LEMMA RestartKeepsCards ==
    ASSUME CardInv, ApprovedInv', Restart
    PROVE  CardInv'
  <1> USE DEF CardInv
  <1>1. TypeOK /\ TypeOK'
    BY DEF ApprovedInv
  <1>2. /\ \A q \in Prompts : future'[q] = "none"
        /\ UNCHANGED <<attempt, card>>
        /\ \A c \in Calls : st'[c] = IF st[c] \in Asking THEN "lost" ELSE st[c]
    BY DEF Restart
  <1>3. PendingListed' /\ OwnRecord'
    BY <1>2 DEF PendingListed, OwnRecord, Live
  <1>4. AwaitsOwn'
    BY <1>2 DEF AwaitsOwn
  <1>5. ParkedHasCard'
    BY <1>1, <1>2, AliasedIsFixed DEF ParkedHasCard, Prompt
  <1> QED
    BY <1>3, <1>4, <1>5

-----------------------------------------------------------------------------
(* The theorems. *)

LEMMA InitApproved ==
    ASSUME Init
    PROVE  CardInv
  <1>1. TypeOK
    BY InitTypes
  <1>2. /\ \A p \in Prompts : future[p] = "none"
        /\ order = <<>> /\ \A c \in Calls : st[c] = "idle"
        /\ session = {} /\ disk = {} /\ project = {}
    BY DEF Init
  <1>3. Fresh /\ AwaitsItsText /\ GrantsApproved /\ RunsOnlyApproved
    BY <1>2 DEF Fresh, InOrder, AwaitsItsText, GrantsApproved, RunsOnlyApproved
  <1>4. EnoughRecords
    <2> SUFFICES ASSUME NEW m \in Tasks \X Actions
                 PROVE  Cardinality(Publishing(m)) <= Cardinality(Free(m))
      BY DEF EnoughRecords
    <2>1. Publishing(m) = {}
      BY <1>2 DEF Publishing
    <2>2. Cardinality(Publishing(m)) = 0
      BY <2>1, FS_EmptySet
    <2> QED
      BY <2>2, CountTypes
  <1>5. PendingListed /\ OwnRecord /\ AwaitsOwn /\ ParkedHasCard
    BY <1>2 DEF PendingListed, OwnRecord, Live, AwaitsOwn, ParkedHasCard
  <1> QED
    BY <1>1, <1>3, <1>4, <1>5 DEF CardInv, ApprovedInv

LEMMA StepKeepsApproved ==
    ASSUME ~ClicksDuringPublish, CardInv, SessionGrantsStored, [Next]_vars
    PROVE  CardInv'
  <1>1. TypeOK' /\ ApprovedInv
    BY StepKeepsTypes DEF CardInv, ApprovedInv
  <1>2. ASSUME NEW c \in Calls, CallStep(c)
        PROVE  CardInv'
    <2>1. CASE Predict(c)
      BY <2>1, <1>1, PredictKeeps, PredictKeepsCards
    <2>2. CASE Authorize(c)
      BY <2>2, <1>1, AuthorizeKeeps, AuthorizeKeepsCards
    <2>3. CASE Scan(c)
      BY <2>3, <1>1, ScanKeeps, ScanKeepsCards
    <2>4. CASE Replied(c)
      BY <2>4, <1>1, RepliedKeeps, RepliedKeepsCards
    <2>5. CASE Expire(c)
      BY <2>5, <1>1, ExpireKeeps, ExpireKeepsCards
    <2>6. CASE CancelledByOther(c)
      BY <2>6, <1>1, CancelledKeeps, CancelledKeepsCards
    <2> QED
      BY <1>2, <2>1, <2>2, <2>3, <2>4, <2>5, <2>6 DEF CallStep
  <1>3. ASSUME NEW c \in Calls, Again(c)
        PROVE  CardInv'
    BY <1>1, <1>3, AgainKeeps, AgainKeepsCards
  <1>4. ASSUME NEW p \in Prompts, NEW r \in Replies, Click(p, r)
        PROVE  CardInv'
    BY <1>1, <1>4, ClickKeeps, ClickKeepsCards
  <1>5. ASSUME NEW p \in Prompts, NEW r \in Replies, ClickExpired(p, r)
        PROVE  CardInv'
    BY <1>1, <1>5, ClickExpiredKeeps, ClickExpiredKeepsCards
  <1>6. CASE Restart
    BY <1>1, <1>6, RestartKeeps, RestartKeepsCards
  <1>7. CASE UNCHANGED vars
    <2>1. UNCHANGED <<st, attempt, awaits, session, disk, project, order, future, card, approved>>
      BY <1>7 DEF vars, callVars, grantVars, cardVars
    <2>2. Fresh' /\ AwaitsItsText'
      BY <2>1 DEF CardInv, ApprovedInv, Fresh, InOrder, AwaitsItsText
    <2>3. EnoughRecords'
      <3>1. \A m : Publishing(m)' = Publishing(m) /\ Free(m)' = Free(m)
        BY <2>1 DEF Publishing, Free, Live, InOrder
      <3> QED
        BY <3>1, EnoughKept DEF CardInv, ApprovedInv
    <2>4. GrantsApproved' /\ RunsOnlyApproved'
      BY <2>1 DEF CardInv, ApprovedInv, GrantsApproved, RunsOnlyApproved
    <2>5. PendingListed' /\ OwnRecord'
      BY <2>1 DEF CardInv, PendingListed, OwnRecord, Live, InOrder, Aliased, Prompt
    <2>6. AwaitsOwn' /\ ParkedHasCard'
      BY <2>1 DEF CardInv, AwaitsOwn, ParkedHasCard, Aliased, Prompt
    <2> QED
      BY <1>1, <2>2, <2>3, <2>4, <2>5, <2>6 DEF CardInv, ApprovedInv
  <1> QED
    BY <1>2, <1>3, <1>4, <1>5, <1>6, <1>7 DEF Next, Human

\* A record enters the list when its prompt is fresh, and is listed once.
LEMMA StepKeepsOrder ==
    ASSUME TypeOK, Fresh, IsInjective(order), [Next]_vars
    PROVE  IsInjective(order')
  <1>1. ASSUME NEW c \in Calls, Authorize(c), ~Granted(ActionOf[c])
        PROVE  IsInjective(order')
    <2>1. Prompt(c) \in Prompts /\ ~InOrder(Prompt(c))
      BY <1>1, PromptTypes DEF Authorize, Fresh
    <2>2. \A i \in DOMAIN order : order[i] # Prompt(c)
      BY <2>1 DEF InOrder
    <2>3. order' = Append(order, Prompt(c))
      BY <1>1 DEF Authorize
    <2> QED
      BY <2>1, <2>2, <2>3, AppendDistinct DEF TypeOK
  <1>2. ASSUME NEW c \in Calls, Replied(c) \/ Expire(c)
        PROVE  IsInjective(order')
    <2>1. order' = RemoveFirst(order, awaits[c])
      BY <1>2 DEF Replied, Expire, Without
    <2> QED
      BY <2>1, RemoveFirstDistinct DEF TypeOK
  <1>3. CASE Restart
    BY <1>3 DEF Restart, IsInjective
  <1>4. CASE order' = order
    BY <1>4
  <1>5. ASSUME NEW c \in Calls, CallStep(c) \/ Again(c)
        PROVE  IsInjective(order')
    BY <1>1, <1>2, <1>4, <1>5
       DEF CallStep, Predict, Authorize, Scan, CancelledByOther, Again, cardVars
  <1>6. CASE Human
    BY <1>4, <1>6 DEF Human, Click, ClickExpired
  <1>7. CASE UNCHANGED vars
    BY <1>4, <1>7 DEF vars, cardVars
  <1> QED
    BY <1>3, <1>5, <1>6, <1>7 DEF Next

LEMMA GrantsInvariant == Spec => [](TypeOK /\ SessionGrantsStored)
  <1>1. Init => TypeOK /\ SessionGrantsStored
    BY InitTypes
  <1>2. TypeOK /\ SessionGrantsStored /\ [Next]_vars => (TypeOK /\ SessionGrantsStored)'
    BY StepKeepsTypes
  <1> QED
    BY <1>1, <1>2, PTL DEF Spec

LEMMA ApprovalsInvariant ==
    ASSUME ~ClicksDuringPublish
    PROVE  Spec => []CardInv
  <1>1. Init => CardInv
    BY InitApproved
  <1>2. CardInv /\ TypeOK /\ SessionGrantsStored /\ [Next]_vars => CardInv'
    BY StepKeepsApproved
  <1> QED
    BY <1>1, <1>2, GrantsInvariant, PTL DEF Spec

(* The approvals keep their types: a callback awaits a record exactly while it
   waits, and what it awaits is a prompt. *)
THEOREM ApprovalTypes == Spec => []TypeOK
  BY GrantsInvariant, PTL

(* What the session's scope grants in memory is in the allowlist file, whatever
   the order of reads of the file, approvals and restarts. *)
THEOREM GrantsAreStored == Spec => []SessionGrantsStored
  BY GrantsInvariant, PTL

(* No action runs that no human has approved, on a live prompt, a related or an
   expired one, for any number of calls, prompts with equal text and restarts,
   if no card is clicked between a publication and its scan. *)
THEOREM NothingRunsUnapproved ==
    ASSUME ~ClicksDuringPublish
    PROVE  Spec => []RunsOnlyApproved
  <1>1. CardInv => RunsOnlyApproved
    BY DEF CardInv, ApprovedInv
  <1> QED
    BY <1>1, ApprovalsInvariant, PTL

(* A call that waits for a later decision has an open card to make it on, if no
   other call shows the same prompt and no card is clicked between a
   publication and its scan. *)
THEOREM ParkedCallsHaveCards ==
    ASSUME ~ClicksDuringPublish
    PROVE  Spec => []ParkedHasCard
  <1>1. CardInv => ParkedHasCard
    BY DEF CardInv
  <1> QED
    BY <1>1, ApprovalsInvariant, PTL

(* Dropping a record from the list by its first entry drops it altogether: no
   record is listed twice (if no card is clicked as above). *)
THEOREM RecordsListedOnce ==
    ASSUME ~ClicksDuringPublish
    PROVE  Spec => []IsInjective(order)
  <1>1. Init => IsInjective(order)
    BY DEF Init, IsInjective
  <1>2. CardInv /\ IsInjective(order) /\ [Next]_vars => IsInjective(order)'
    BY StepKeepsOrder DEF CardInv, ApprovedInv
  <1> QED
    BY <1>1, <1>2, ApprovalsInvariant, PTL DEF Spec
=============================================================================
