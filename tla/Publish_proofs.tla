----------------------------- MODULE Publish_proofs -----------------------------
(***************************************************************************)
(* Theorems about what a reader of the published keys depends on: Publish, *)
(* for any number of devices, keys, sets, readers and requests, with or    *)
(* without deletions, and however many commits the other services make;    *)
(* and Certs, the certificate the keys are served under, for any lifetime, *)
(* renewal share, interval, backoff, failures and crashes.                 *)
(***************************************************************************)
EXTENDS Publish, Certs, Integers, TLAPS

(***************************************************************************)
(* The inductive invariant.                                                *)
(***************************************************************************)
\* The part of the types the argument rests on.
Shape ==
  /\ DOMAIN key = Key
  /\ handle \in BOOLEAN /\ owner \in BOOLEAN
  /\ DOMAIN state = SetId /\ DOMAIN vis = SetId /\ DOMAIN access = SetId
  /\ default \in SetId
  /\ rpc \in [Reader -> {"idle", "handle", "owner", "set", "access", "list", "answered"}]
  /\ wants \in [Reader -> SetId \cup {0}]
  /\ DOMAIN token = Reader /\ DOMAIN set = Reader /\ DOMAIN seenVis = Reader
  /\ DOMAIN body = Reader
  /\ since \in [Reader -> [revoked : SUBSET Key, retired : SUBSET Key, handle : BOOLEAN,
                           owner : BOOLEAN, public : SUBSET SetId, opened : SUBSET SetId]]

\* A reader has a body only once it is answered.
Unanswered == \A r \in Reader : rpc[r] # "answered" => body[r] = None

\* What a reader has seen revoked is still revoked, and not in its answer.
RevokedForGood ==
  \A r \in Reader :
    /\ \A k \in since[r].revoked : key[k] = "revoked"
    /\ body[r] # None => body[r] \cap since[r].revoked = {}

\* A reader under way has seen the rows as they are now.
Present ==
  \A r \in Reader : rpc[r] # "idle" =>
    /\ handle => since[r].handle
    /\ owner => since[r].owner
    /\ \A s \in SetId : state[s] = "active" /\ vis[s] = "public" => s \in since[r].public
    /\ \A s \in SetId : access[s] = "live" => s \in since[r].opened

\* The gates a reader has come through were open to it.
Passed ==
  \A r \in Reader :
    /\ rpc[r] \in {"owner", "set", "access", "list"} => since[r].handle
    /\ rpc[r] \in {"set", "access", "list"} => since[r].owner
    /\ rpc[r] \in {"access", "list"} =>
         set[r] \in SetId /\ (seenVis[r] = "public" => set[r] \in since[r].public)
    /\ rpc[r] = "list" =>
         set[r] \in since[r].public \/ (token[r] /\ set[r] \in since[r].opened)

(***************************************************************************)
(* What a commit does to the readers under way.                            *)
(***************************************************************************)
\* A reader at rest has seen nothing; one under way has seen what it had seen
\* and what is there after the commit.
Saw ==
  /\ since' \in [Reader -> [revoked : SUBSET Key, retired : SUBSET Key, handle : BOOLEAN,
                            owner : BOOLEAN, public : SUBSET SetId, opened : SUBSET SetId]]
  /\ \A r \in Reader : rpc[r] = "idle" => since'[r].revoked = {}
  /\ \A r \in Reader : rpc[r] # "idle" =>
       /\ since'[r].revoked = since[r].revoked
       /\ since'[r].handle = (since[r].handle \/ handle')
       /\ since'[r].owner = (since[r].owner \/ owner')
       /\ since'[r].public =
            since[r].public \cup {s \in SetId : state'[s] = "active" /\ vis'[s] = "public"}
       /\ since'[r].opened = since[r].opened \cup {s \in SetId : access'[s] = "live"}

\* A commit of any service: the readers see it, and no key comes back.
RowStep ==
  /\ UNCHANGED reader
  /\ Saw
  /\ DOMAIN key' = Key
  /\ handle' \in BOOLEAN /\ owner' \in BOOLEAN
  /\ DOMAIN state' = SetId /\ DOMAIN vis' = SetId /\ DOMAIN access' = SetId
  /\ default' \in SetId
  /\ \A k \in Key : key[k] = "revoked" => key'[k] = "revoked"

\* Witness, for the readers of this state.
LEMMA WitnessSaw ==
  ASSUME Shape, Witness, handle' \in BOOLEAN, owner' \in BOOLEAN
  PROVE Saw
<1> DEFINE Seen == [revoked : SUBSET Key, retired : SUBSET Key, handle : BOOLEAN,
                    owner : BOOLEAN, public : SUBSET SetId, opened : SUBSET SetId]
<1>1. Nothing \in Seen /\ Nothing.revoked = {}
  BY Zenon DEF Nothing
<1>2. ASSUME NEW r \in Reader, rpc[r] # "idle"
      PROVE /\ since'[r] \in Seen
            /\ since'[r].revoked = since[r].revoked
            /\ since'[r].handle = (since[r].handle \/ handle')
            /\ since'[r].owner = (since[r].owner \/ owner')
            /\ since'[r].public =
                 since[r].public \cup {s \in SetId : state'[s] = "active" /\ vis'[s] = "public"}
            /\ since'[r].opened = since[r].opened \cup {s \in SetId : access'[s] = "live"}
  <2>1. since[r] \in Seen
    BY Zenon DEF Shape
  <2>2. since'[r] = [since[r] EXCEPT
           !.handle = @ \/ handle', !.owner = @ \/ owner',
           !.public = @ \cup {s \in SetId : state'[s] = "active" /\ vis'[s] = "public"},
           !.opened = @ \cup {s \in SetId : access'[s] = "live"}]
    BY <1>2, Zenon DEF Witness, Widen, Observed
  <2> DEFINE h == since[r].handle \/ handle'
             o == since[r].owner \/ owner'
             p == since[r].public
                    \cup {s \in SetId : state'[s] = "active" /\ vis'[s] = "public"}
             a == since[r].opened \cup {s \in SetId : access'[s] = "live"}
  <2>3. h \in BOOLEAN /\ o \in BOOLEAN /\ p \in SUBSET SetId /\ a \in SUBSET SetId
    BY <2>1, Zenon
  <2>4. since'[r] = [revoked |-> since[r].revoked, retired |-> since[r].retired,
                     handle |-> h, owner |-> o, public |-> p, opened |-> a]
    BY <2>1, <2>2, Zenon
  <2> HIDE DEF h, o, p, a
  <2>5. /\ since'[r] \in Seen
        /\ since'[r].revoked = since[r].revoked
        /\ since'[r].handle = h /\ since'[r].owner = o
        /\ since'[r].public = p /\ since'[r].opened = a
    BY <2>1, <2>3, <2>4
  <2>6. QED
    BY <2>5, Zenon DEF h, o, p, a
<1>3. ASSUME NEW r \in Reader, rpc[r] = "idle" PROVE since'[r] = Nothing
  BY <1>3, Zenon DEF Witness
<1>4. DOMAIN since' = Reader /\ since' = [r \in Reader |-> since'[r]]
  BY Zenon DEF Witness
<1>5. since' \in [Reader -> Seen]
  BY <1>1, <1>2, <1>3, <1>4
<1>6. QED
  BY <1>1, <1>2, <1>3, <1>5, Zenon DEF Saw

\* A step is one of a reader, or a commit of a service, or leaves rows and
\* readers alone.
LEMMA Steps ==
  ASSUME Shape, [Next]_vars
  PROVE \/ \E r \in Reader : Ask(r) \/ Resolve(r) \/ Done(r)
        \/ RowStep
        \/ UNCHANGED <<rows, reader, since>>
<1> USE DEF Shape
<1>1. ASSUME NEW q \in Req, CreateKey(q) PROVE RowStep
  BY <1>1, WitnessSaw, Zenon DEF RowStep, CreateKey, End, reader
<1>2. ASSUME NEW q \in Req, RevokeKey(q) PROVE RowStep
  BY <1>2, WitnessSaw, Zenon DEF RowStep, RevokeKey, End, reader
<1>3. ASSUME NEW q \in Req, RetireDevice(q) PROVE RowStep
  BY <1>3, WitnessSaw, Zenon DEF RowStep, RetireDevice, End, reader
<1>4. ASSUME NEW d \in Device, Register(d) PROVE RowStep
  BY <1>4, WitnessSaw, Zenon DEF RowStep, Register, reader
<1>5. ASSUME NEW s \in SetId, SetVisibility(s) PROVE RowStep
  BY <1>5, WitnessSaw, Zenon DEF RowStep, SetVisibility, Commit, reader
<1>6. ASSUME NEW s \in SetId, SetDefault(s) PROVE RowStep
  BY <1>6, WitnessSaw, Zenon DEF RowStep, SetDefault, Commit, reader
<1>7. ASSUME NEW s \in SetId, DeleteSet(s) PROVE RowStep
  BY <1>7, WitnessSaw, Zenon DEF RowStep, DeleteSet, Commit, reader
<1>8. ASSUME NEW s \in SetId, Mint(s) PROVE RowStep
  BY <1>8, WitnessSaw, Zenon DEF RowStep, Mint, Commit, reader
<1>9. ASSUME NEW s \in SetId, Lapse(s) PROVE RowStep
  BY <1>9, WitnessSaw, Zenon DEF RowStep, Lapse, Commit, reader
<1>10. ASSUME NEW s \in SetId, NEW t \in SetId, RenameSet(s, t) PROVE RowStep
  BY <1>10, WitnessSaw, Zenon DEF RowStep, RenameSet, Commit, reader
<1>11. ASSUME MoveHandle PROVE RowStep
  BY <1>11, WitnessSaw, Zenon DEF RowStep, MoveHandle, Commit, reader
<1>12. ASSUME Suspend PROVE RowStep
  BY <1>12, WitnessSaw, Zenon DEF RowStep, Suspend, Commit, reader
<1>13. ASSUME NEW q \in Req, Add(q) \/ Revoke(q) \/ RevokeDevice(q)
       PROVE UNCHANGED <<rows, reader, since>>
  BY <1>13, Zenon DEF Add, Revoke, RevokeDevice, Begin
<1>14. QED
  BY <1>1, <1>2, <1>3, <1>4, <1>5, <1>6, <1>7, <1>8, <1>9, <1>10, <1>11, <1>12, <1>13, Zenon DEF Next, Manage, vars

\* Every step keeps the types.
LEMMA ShapeStep == Shape /\ [Next]_vars => Shape'
<1> SUFFICES ASSUME Shape, [Next]_vars PROVE Shape'
  BY Zenon
<1> USE DEF Shape, rows, reader, request
<1>1. ASSUME NEW r \in Reader, Ask(r) PROVE Shape'
  BY <1>1, ZenonT(60) DEF Ask, ReaderGoto, Widen, Observed, Nothing
<1>2. ASSUME NEW r \in Reader, GetHandle(r) PROVE Shape'
  BY <1>2, Zenon DEF GetHandle, ReaderGoto, Answer
<1>3. ASSUME NEW r \in Reader, GetOwner(r) PROVE Shape'
  BY <1>3, Zenon DEF GetOwner, ReaderGoto, Answer
<1>4. ASSUME NEW r \in Reader, GetSet(r) PROVE Shape'
  BY <1>4, Zenon DEF GetSet, ReaderGoto, Answer
<1>5. ASSUME NEW r \in Reader, Access(r) PROVE Shape'
  BY <1>5, Zenon DEF Access, Admits, ReaderGoto, Answer
<1>6. ASSUME NEW r \in Reader, List(r) PROVE Shape'
  BY <1>6, Zenon DEF List, ReaderGoto, Answer
<1>7. ASSUME NEW r \in Reader, Fault(r) PROVE Shape'
  BY <1>7, Zenon DEF Fault, ReaderGoto, Answer
<1>8. ASSUME NEW r \in Reader, Done(r) PROVE Shape'
  BY <1>8, Zenon DEF Done, ReaderGoto, Nothing
<1>9. CASE RowStep
  BY <1>9, Zenon DEF RowStep, Saw
<1>10. CASE UNCHANGED <<rows, reader, since>>
  BY <1>10, Zenon
<1>11. QED
  BY <1>1, <1>2, <1>3, <1>4, <1>5, <1>6, <1>7, <1>8, <1>9, <1>10, Steps, Zenon DEF Resolve

\* A request that goes on without an answer has still read nothing,
LEMMA ReadsOn ==
  ASSUME Shape, Unanswered, RevokedForGood, NEW r \in Reader, rpc[r] # "answered", NEW l, l # "answered",
         ReaderGoto(r, l), UNCHANGED <<body, key, since>>
  PROVE  (Unanswered /\ RevokedForGood)'
<1>1. Unanswered'
  BY Zenon DEF Shape, Unanswered, ReaderGoto
<1>2. RevokedForGood'
  BY Zenon DEF RevokedForGood
<1> QED
  BY <1>1, <1>2, Zenon

\* and one that is turned away is answered with nothing.
LEMMA NothingRead ==
  ASSUME Shape, Unanswered, RevokedForGood, NEW r \in Reader, Answer(r, None), UNCHANGED <<key, since>>
  PROVE  (Unanswered /\ RevokedForGood)'
<1>1. body'[r] = None /\ \A q \in Reader : q # r => body'[q] = body[q] /\ rpc'[q] = rpc[q]
  BY Zenon DEF Shape, Answer, ReaderGoto
<1>2. Unanswered'
  BY <1>1, Zenon DEF Unanswered
<1>3. RevokedForGood'
  BY <1>1, Zenon DEF RevokedForGood
<1> QED
  BY <1>2, <1>3, Zenon

\* A key is never reactivated, and List leaves out the revoked ones.
LEMMA RevokedStep == Shape /\ Unanswered /\ RevokedForGood /\ [Next]_vars => (Unanswered /\ RevokedForGood)'
<1> SUFFICES ASSUME Shape, Unanswered, RevokedForGood, [Next]_vars PROVE (Unanswered /\ RevokedForGood)'
  BY Zenon
<1> USE DEF Shape, Unanswered, RevokedForGood, rows, reader, request
<1>1. ASSUME NEW r \in Reader, Ask(r) PROVE (Unanswered /\ RevokedForGood)'
  BY <1>1, Zenon DEF Ask, ReaderGoto, Widen, Observed, Nothing
<1>2. ASSUME NEW r \in Reader, GetHandle(r) PROVE (Unanswered /\ RevokedForGood)'
  <2>1. CASE ~handle
    BY <1>2, <2>1, NothingRead, Zenon DEF GetHandle
  <2>2. CASE handle
    BY <1>2, <2>2, ReadsOn, Zenon DEF GetHandle
  <2> QED
    BY <2>1, <2>2, Zenon
<1>3. ASSUME NEW r \in Reader, GetOwner(r) PROVE (Unanswered /\ RevokedForGood)'
  <2>1. CASE owner
    BY <1>3, <2>1, ReadsOn, Zenon DEF GetOwner
  <2>2. CASE ~owner
    BY <1>3, <2>2, NothingRead, Zenon DEF GetOwner
  <2> QED
    BY <2>1, <2>2, Zenon
<1>4. ASSUME NEW r \in Reader, GetSet(r) PROVE (Unanswered /\ RevokedForGood)'
  <2>1. (ReaderGoto(r, "access") /\ UNCHANGED body) \/ Answer(r, None)
    BY <1>4, Zenon DEF GetSet
  <2>2. rpc[r] = "set" /\ UNCHANGED <<key, since>>
    BY <1>4, Zenon DEF GetSet
  <2> QED
    BY <2>1, <2>2, NothingRead, ReadsOn, Zenon
<1>5. ASSUME NEW r \in Reader, Access(r) PROVE (Unanswered /\ RevokedForGood)'
  BY <1>5, ZenonT(60) DEF Access, Admits, ReaderGoto, Answer
<1>6. ASSUME NEW r \in Reader, List(r) PROVE (Unanswered /\ RevokedForGood)'
  BY <1>6, Zenon DEF List, ReaderGoto, Answer
<1>7. ASSUME NEW r \in Reader, Fault(r) PROVE (Unanswered /\ RevokedForGood)'
  BY <1>7, Zenon DEF Fault, ReaderGoto, Answer
<1>8. ASSUME NEW r \in Reader, Done(r) PROVE (Unanswered /\ RevokedForGood)'
  BY <1>8, Zenon DEF Done, ReaderGoto, Nothing
<1>9. CASE RowStep
  BY <1>9, ZenonT(60) DEF RowStep, Saw
<1>10. CASE UNCHANGED <<rows, reader, since>>
  BY <1>10, Zenon
<1>11. QED
  BY <1>1, <1>2, <1>3, <1>4, <1>5, <1>6, <1>7, <1>8, <1>9, <1>10, Steps, Zenon DEF Resolve

\* Every commit is seen by the readers under way.
LEMMA PresentStep == Shape /\ Present /\ [Next]_vars => Present'
<1> SUFFICES ASSUME Shape, Present, [Next]_vars PROVE Present'
  BY Zenon
<1> USE DEF Shape, Present, rows, reader, request
<1>1. ASSUME NEW r \in Reader, Ask(r) PROVE Present'
  BY <1>1, ZenonT(60) DEF Ask, ReaderGoto, Widen, Observed, Nothing
<1>2. ASSUME NEW r \in Reader, GetHandle(r) PROVE Present'
  BY <1>2 DEF GetHandle, ReaderGoto, Answer
<1>3. ASSUME NEW r \in Reader, GetOwner(r) PROVE Present'
  BY <1>3 DEF GetOwner, ReaderGoto, Answer
<1>4. ASSUME NEW r \in Reader, GetSet(r) PROVE Present'
  BY <1>4, ZenonT(60) DEF GetSet, ReaderGoto, Answer
<1>5. ASSUME NEW r \in Reader, Access(r) PROVE Present'
  BY <1>5, ZenonT(60) DEF Access, Admits, ReaderGoto, Answer
<1>6. ASSUME NEW r \in Reader, List(r) PROVE Present'
  BY <1>6, Zenon DEF List, ReaderGoto, Answer
<1>7. ASSUME NEW r \in Reader, Fault(r) PROVE Present'
  BY <1>7, Zenon DEF Fault, ReaderGoto, Answer
<1>8. ASSUME NEW r \in Reader, Done(r) PROVE Present'
  BY <1>8, Zenon DEF Done, ReaderGoto, Nothing
<1>9. CASE RowStep
  BY <1>9 DEF RowStep, Saw
<1>10. CASE UNCHANGED <<rows, reader, since>>
  BY <1>10, Zenon
<1>11. QED
  BY <1>1, <1>2, <1>3, <1>4, <1>5, <1>6, <1>7, <1>8, <1>9, <1>10, Steps, Zenon DEF Resolve

\* A gate that is open now was open during the read.
LEMMA PassedStep == Shape /\ Unanswered /\ Present /\ Passed /\ GatesHeld /\ [Next]_vars => (Passed /\ GatesHeld)'
<1> SUFFICES ASSUME Shape, Unanswered, Present, Passed, GatesHeld, [Next]_vars PROVE (Passed /\ GatesHeld)'
  BY ZenonT(60)
<1> USE DEF Shape, Unanswered, Present, Passed, GatesHeld, rows, reader, request
<1>1. ASSUME NEW r \in Reader, Ask(r) PROVE (Passed /\ GatesHeld)'
  BY <1>1 DEF Ask, ReaderGoto, Widen, Observed, Nothing
<1>2. ASSUME NEW r \in Reader, GetHandle(r) PROVE (Passed /\ GatesHeld)'
  BY SMTT(20), <1>2 DEF GetHandle, ReaderGoto, Answer
<1>3. ASSUME NEW r \in Reader, GetOwner(r) PROVE (Passed /\ GatesHeld)'
  BY SMTT(20), <1>3 DEF GetOwner, ReaderGoto, Answer
<1>4. ASSUME NEW r \in Reader, GetSet(r) PROVE (Passed /\ GatesHeld)'
  BY <1>4 DEF GetSet, ReaderGoto, Answer
<1>5. ASSUME NEW r \in Reader, Access(r) PROVE (Passed /\ GatesHeld)'
  BY <1>5 DEF Access, Admits, ReaderGoto, Answer
<1>6. ASSUME NEW r \in Reader, List(r) PROVE (Passed /\ GatesHeld)'
  BY <1>6, Zenon DEF List, ReaderGoto, Answer
<1>7. ASSUME NEW r \in Reader, Fault(r) PROVE (Passed /\ GatesHeld)'
  BY <1>7, Zenon DEF Fault, ReaderGoto, Answer
<1>8. ASSUME NEW r \in Reader, Done(r) PROVE (Passed /\ GatesHeld)'
  BY <1>8, ZenonT(60) DEF Done, ReaderGoto, Nothing
<1>9. CASE RowStep
  <2>1. ASSUME NEW r \in Reader, rpc[r] # "idle"
        PROVE /\ since[r].handle => since'[r].handle
              /\ since[r].owner => since'[r].owner
              /\ since[r].public \subseteq since'[r].public
              /\ since[r].opened \subseteq since'[r].opened
    BY <1>9, <2>1 DEF RowStep, Saw
  <2>2. UNCHANGED reader
    BY <1>9, Zenon DEF RowStep
  <2>3. Passed'
    BY <2>1, <2>2, Zenon
  <2>4. GatesHeld'
    BY <2>1, <2>2, Zenon
  <2>5. QED
    BY <2>3, <2>4, Zenon
<1>10. CASE UNCHANGED <<rows, reader, since>>
  BY <1>10, Zenon
<1>11. QED
  BY <1>1, <1>2, <1>3, <1>4, <1>5, <1>6, <1>7, <1>8, <1>9, <1>10, Steps, Zenon DEF Resolve

(***************************************************************************)
(* The theorems.                                                           *)
(***************************************************************************)
\* Nobody reads, and nothing has been seen.
LEMMA PublishInit ==
  Init => Shape /\ Unanswered /\ RevokedForGood /\ Present /\ Passed /\ GatesHeld
BY SMTT(20), PublishAssumptions
DEF Init, Nothing, Shape, Unanswered, RevokedForGood, Present, Passed, GatesHeld

\* However commits fall between the five statements of Resolve, no body holds a
\* key that was revoked before the reader asked (ListActiveByKeySet filters, and
\* no operation reactivates a key).
THEOREM RevokedIsNeverServed == Spec => []RevokedStaysUnserved
<1>1. RevokedForGood => RevokedStaysUnserved
  BY Zenon DEF RevokedForGood, RevokedStaysUnserved
<1>2. QED
  BY <1>1, PublishInit, ShapeStep, RevokedStep, PTL DEF Spec

\* However commits fall between the five statements of Resolve, a body is given
\* only through a handle, an owner and a set that were open to the reader at some
\* time while it asked.
THEOREM GatesAreNeverBypassed == Spec => []GatesHeld
BY PublishInit, ShapeStep, RevokedStep, PresentStep, PassedStep, PTL DEF Spec

(***************************************************************************)
(* Certs: the certificate the daemon serves, over every run of the         *)
(* process.                                                                *)
(***************************************************************************)
\* A certificate file, or the certificate in memory.
CertOrNone == Cert \cup {NoCert}

\* What is on disk and in memory, and where an issuance is: only an issuing mode
\* has one, its certificate is for a key that the old certificate is not for, and a
\* process without a certificate has no usable one in its cache.
CertInv ==
  /\ mode \in Mode
  /\ keyFile \in CertKey \cup {0}
  /\ certFile \in CertOrNone /\ current \in CertOrNone
  /\ up = "down" => current = NoCert /\ loop = "off"
  /\ loop # "off" => mode \in Issuing
  /\ loop \in {"store_key", "store_cert"} => fresh \in Cert /\ fresh.key # certFile.key
  /\ mode \in Issuing /\ up # "down" /\ current = NoCert => ~Valid(keyFile, certFile)

\* A certificate is told from none by its key.
LEMMA CertHasKey ==
  ASSUME NEW c \in Cert
  PROVE  c # NoCert /\ c.key \in 1 .. 4 /\ c.age \in 0 .. Expired
BY DEF Cert, CertKey, NoCert

\* A new key is none of those around (NewKey).
LEMMA KeyIsNew ==
  ASSUME CertInv
  PROVE  NewKey \in CertKey /\ NewKey \notin {keyFile, certFile.key, current.key}
<1>1. \E k \in CertKey : k \notin {keyFile, certFile.key, current.key}
  BY DEF CertKey
<1> QED
  BY <1>1, Zenon DEF NewKey

\* A certificate that ages stays for its key, and is valid for no longer (Older).
LEMMA AgesOnly ==
  ASSUME Lifetime \in Nat, NEW c \in CertOrNone
  PROVE  /\ Older(c) \in CertOrNone /\ Older(c).key = c.key
         /\ Older(c) = NoCert <=> c = NoCert
         /\ \A k : Valid(k, Older(c)) => Valid(k, c)
<1>1. CASE c = NoCert \/ c.age = Expired
  BY <1>1, Zenon DEF Older
<1>2. CASE ~(c = NoCert \/ c.age = Expired)
  <2>1. c \in Cert
    BY <1>2, Zenon DEF CertOrNone
  <2>2. c.age \in Nat /\ c.age + 1 <= Lifetime + 1 /\ Expired = Lifetime + 1
    BY <1>2, <2>1, CertHasKey DEF Expired
  <2>3. Older(c) = [key |-> c.key, age |-> c.age + 1]
    BY <1>2, <2>1, Zenon DEF Older, Cert
  <2>4. Older(c) \in Cert
    BY <2>1, <2>2, <2>3, CertHasKey DEF Cert, CertKey
  <2> QED
    BY <1>2, <2>2, <2>3, <2>4, CertHasKey DEF CertOrNone, Valid
<1> QED
  BY <1>1, <1>2, Zenon

\* The first start.
LEMMA CertStarts == ASSUME Lifetime \in Nat, CertsInit PROVE CertInv
BY DEF CertInv, CertsInit, CertOrNone, Cert, Expired, NoCert, Mode, Issuing, CertKey

\* What a start adopts from the cache is valid, and it adopts what is valid (loadCachedCert).
LEMMA Adopts ==
  ASSUME CertInv
  PROVE  /\ Cached \in CertOrNone
         /\ Cached = NoCert => ~Valid(keyFile, certFile)
BY Zenon DEF Cached, Valid, CertInv, CertOrNone

\* Starts.
LEMMA CertBoots == ASSUME Lifetime \in Nat, CertInv, StartUp \/ BootFails PROVE CertInv'
<1> USE DEF CertInv
<1>1. [key |-> NewKey, age |-> 0] \in Cert
  BY KeyIsNew DEF Cert, Expired
<1>2. CASE BootSelfSigned
  <2>1. /\ mode = "self_signed" /\ UNCHANGED <<mode, keyFile, certFile>>
        /\ current' = [key |-> NewKey, age |-> 0] /\ loop' = "off" /\ up' = "serving"
    BY <1>2, Zenon DEF BootSelfSigned, Serving, Issuing, disk
  <2> QED
    BY <1>1, <2>1, Zenon DEF Issuing, CertOrNone
<1>3. CASE BootManual
  <2>1. /\ mode = "manual" /\ UNCHANGED <<mode, keyFile, certFile>>
        /\ current' = Cached /\ loop' = "off" /\ up' = "serving"
    BY <1>3, Zenon DEF BootManual, Serving, Issuing, disk
  <2> QED
    BY <2>1, Adopts, Zenon DEF Issuing
<1>4. CASE BootCSR
  <2>1. /\ mode = "csr" /\ up = "down" /\ mode' = mode /\ certFile' = certFile
        /\ keyFile' \in CertKey \cup {0}
    BY <1>4, KeyIsNew, Zenon DEF BootCSR
  <2>2. \/ current' = Cached /\ loop' = "off" /\ up' = "serving"
        \/ current' = current /\ loop' = loop /\ up' = up
    BY <1>4, Zenon DEF BootCSR, Serving, memory, Issuing
  <2> QED
    BY <2>1, <2>2, Adopts, Zenon DEF Issuing, CertOrNone, NoCert
<1>5. CASE BootACME
  BY <1>5, Adopts, Zenon DEF BootACME, Serving, Issuing, Mode, disk, Valid
<1>6. CASE BootOrigin
  BY <1>6, Adopts, Zenon DEF BootOrigin, Serving, Issuing, Mode, disk, Valid
<1>7. CASE BootFails
  BY <1>7, Zenon DEF BootFails, memory, disk, Valid
<1> QED
  BY <1>2, <1>3, <1>4, <1>5, <1>6, <1>7, Zenon DEF StartUp

\* The loop, an attempt that fails, a handshake (renewalLoop, obtain, storeCachedCert).
LEMMA CertRuns ==
  ASSUME Lifetime \in Nat, CertInv, Loop \/ Authority \/ AttemptFails \/ Handshake PROVE CertInv'
<1> USE DEF CertInv
<1>1. [key |-> NewKey, age |-> 0] \in Cert
  BY KeyIsNew DEF Cert, Expired
<1>2. CASE Check
  BY <1>2, Zenon DEF Check, disk, Valid
<1>3. CASE AuthorizeOrder \/ SolveAuthorization
  BY <1>3, Zenon DEF AuthorizeOrder, SolveAuthorization, disk, Valid
<1>4. CASE Finalize \/ RequestCertificate
  BY <1>1, <1>4, KeyIsNew DEF Finalize, RequestCertificate, disk, Valid
<1>5. CASE StoreKey
  <2>1. ~Valid(keyFile', certFile')
    BY <1>5, Zenon DEF StoreKey, Valid
  <2> QED
    BY <1>5, <2>1, Zenon DEF StoreKey, Cert, CertKey, Valid
<1>6. CASE StoreCert
  BY <1>6, CertHasKey, Zenon DEF StoreCert, Serving, CertOrNone
<1>7. CASE AttemptFails
  <2>1. \/ up' = "down" /\ current' = NoCert /\ loop' = "off"
        \/ up' = "serving" /\ loop' = "idle" /\ current' = current
    BY <1>7, Zenon DEF AttemptFails, GoDown, Retry
  <2>2. UNCHANGED <<mode, keyFile, certFile>> /\ loop # "off"
    BY <1>7, Zenon DEF AttemptFails, disk, AtWork
  <2> QED
    BY <2>1, <2>2, Zenon DEF CertOrNone, Valid
<1>8. CASE Handshake
  BY <1>1, <1>8, CertHasKey, Zenon DEF Handshake, disk, CertOrNone, Issuing
<1> QED
  BY <1>2, <1>3, <1>4, <1>5, <1>6, <1>7, <1>8, Zenon DEF Loop, Authority

\* Stops, the operator, the clock.
LEMMA CertSurrounded ==
  ASSUME Lifetime \in Nat, CertInv, Close \/ ProcessDies \/ OperatorInstalls \/ Tick
  PROVE  CertInv'
<1> USE DEF CertInv
<1>1. CASE Close \/ ProcessDies
  BY <1>1, Zenon DEF Close, ProcessDies, ProcessEnds, GoDown, disk, CertOrNone
<1>2. CASE OperatorInstalls
  <2>1. /\ mode \notin Issuing /\ UNCHANGED <<mode, up, current, loop, fresh>>
        /\ keyFile' \in CertKey \cup {0} /\ certFile' \in CertOrNone
    <3>1. mode \in {"manual", "csr"} /\ UNCHANGED <<mode, up, current, loop, fresh>>
      BY <1>2, Zenon DEF OperatorInstalls, memory
    <3>2. keyFile # 0 => [key |-> keyFile, age |-> 0] \in Cert
      BY DEF Cert, Expired
    <3>3. \/ keyFile' = NewKey /\ certFile' = certFile
          \/ keyFile' = keyFile /\ certFile' = [key |-> keyFile, age |-> 0]
      BY <1>2, Zenon DEF OperatorInstalls
    <3> QED
      BY <3>1, <3>2, <3>3, KeyIsNew, Zenon DEF CertOrNone, NoCert, Issuing
  <2> QED
    BY <2>1, Zenon DEF CertOrNone
<1>3. CASE Tick
  <2>1. /\ UNCHANGED <<mode, keyFile, up, loop, fresh>> /\ loop \notin {"store_key", "store_cert"}
        /\ certFile' = Older(certFile) /\ current' = Older(current)
    BY <1>3, Zenon DEF Tick
  <2> QED
    BY <2>1, AgesOnly, Zenon
<1> QED
  BY <1>1, <1>2, <1>3, Zenon

\* Every step keeps the invariant.
LEMMA CertSteps == ASSUME Lifetime \in Nat, CertInv, [CertsNext]_certVars PROVE CertInv'
<1>1. CASE UNCHANGED certVars
  BY <1>1, Zenon DEF CertInv, certVars, disk, memory, Valid
<1> QED
  BY <1>1, CertBoots, CertRuns, CertSurrounded, Zenon DEF CertsNext

\* An order is placed only when it is due.
LEMMA OrderIsDue ==
  ASSUME CertInv, [CertsNext]_certVars, loop' = "order", loop # "order"
  PROVE  \/ current # NoCert /\ NeedsRenewal(current)
         \/ current = NoCert /\ ~(Valid(keyFile, certFile) /\ ~NeedsRenewal(certFile))
<1>1. BootOrigin \/ Check
  BY Zenon DEF CertsNext, StartUp, Loop, Authority, certVars, memory, BootSelfSigned, BootManual,
         BootCSR, BootACME, BootFails, AuthorizeOrder, SolveAuthorization,
         Finalize, RequestCertificate, StoreKey, StoreCert, AttemptFails,
         Handshake, Close, ProcessDies, ProcessEnds, OperatorInstalls, Tick, Serving, GoDown,
         Retry
<1>2. CASE BootOrigin
  BY <1>2, Adopts, Zenon DEF BootOrigin, Serving, CertInv
<1>3. CASE Check
  BY <1>3, Zenon DEF Check, needsIssuance, CertInv
<1> QED
  BY <1>1, <1>2, <1>3, Zenon

\* For every lifetime, fraction and backoff, wherever the process crashes and
\* however the cache is torn: an order is placed only when nothing usable is in memory
\* or in the cache, or the certificate in use is due (newACMEProviderWithClient,
\* newOriginCAProviderWithClient, renewalLoop).
THEOREM OrdersAreDue == CertsSpec => OrderedOnlyWhenDue
<1>1. CertsInit => CertInv
  BY CertStarts, CertsAssumption, Zenon
<1>2. CertInv /\ [CertsNext]_certVars => CertInv'
  BY CertSteps, CertsAssumption, Zenon
<1>3. CertInv /\ [CertsNext]_certVars =>
        [loop' = "order" /\ loop # "order"
           => \/ current # NoCert /\ NeedsRenewal(current)
              \/ current = NoCert /\ ~(Valid(keyFile, certFile) /\ ~NeedsRenewal(certFile))]_certVars
  BY OrderIsDue, Zenon
<1> QED
  BY <1>1, <1>2, <1>3, PTL DEF CertsSpec, OrderedOnlyWhenDue
\* The certificate is due when it is older than this (acmeNeedsRenewal).
DueAge == Lifetime - Lifetime \div RenewFraction

\* The longest a failed attempt makes the loop wait (nextACMEBackoff).
LongestWait == BackoffMax + BackoffMax \div 4

\* A loop that is scheduled promptly, in a process that keeps running: the age the
\* certificate has when the loop next looks is what is due, one interval, and the
\* longest wait for each failure so far.
LapseInv ==
  /\ up \in {"down", "booting", "serving"}
  /\ loop \in {"off", "idle"} \cup AtWork
  /\ timer \in Nat /\ backoff \in Nat /\ faults \in Nat /\ faults <= PromptFailures
  /\ mode \in Issuing =>
       /\ up # "serving" => certFile = NoCert
       /\ up = "serving" => loop # "off" /\ current.age + timer <= DueAge + CheckInterval + faults * LongestWait
       /\ loop # "idle" => timer = 0
       /\ loop \in {"store_key", "store_cert"} => fresh.age = 0

\* The age of what is in memory or on disk is a number, none when there is nothing.
LEMMA AgeIsNat == ASSUME NEW c \in CertOrNone PROVE c.age \in Nat
BY CertsAssumption DEF CertOrNone, Cert, NoCert, Expired

\* A tick makes a certificate one tick older, or leaves it expired (Older).
LEMMA AgesByOne == ASSUME NEW c \in CertOrNone PROVE Older(c).age <= c.age + 1
<1>1. c.age \in Nat
  BY AgeIsNat, Zenon
<1>2. CASE c = NoCert \/ c.age = Expired
  BY <1>1, <1>2 DEF Older
<1>3. CASE ~(c = NoCert \/ c.age = Expired)
  <2>1. c \in Cert
    BY <1>3, Zenon DEF CertOrNone
  <2>2. Older(c).age = c.age + 1
    BY <1>3, <2>1, Zenon DEF Older, Cert
  <2> QED
    BY <1>1, <2>2
<1> QED
  BY <1>2, <1>3, Zenon

\* A wait after a failure is no longer than the longest (nextACMEBackoff).
LEMMA WaitIsBounded ==
  ASSUME NEW b \in Nat, NEW t \in NextBackoff(b)
  PROVE  t \in Nat /\ t <= LongestWait
<1> DEFINE raised == IF b * BackoffFactor < BackoffMin THEN BackoffMin ELSE b * BackoffFactor
           next == IF raised > BackoffMax THEN BackoffMax ELSE raised
<1>1. b * BackoffFactor \in Nat /\ BackoffMin \in Nat /\ BackoffMax \in Nat
  BY CertsAssumption
<1>2. next \in Nat /\ next <= BackoffMax
  BY <1>1
<1>3. \E spread \in 0 .. next \div 4 : t = next + spread
  BY Zenon DEF NextBackoff
<1> HIDE DEF next
<1>4. next \div 4 <= BackoffMax \div 4
  BY <1>1, <1>2
<1> QED
  BY <1>1, <1>2, <1>3, <1>4 DEF LongestWait

\* The share that must remain is a part of the lifetime (acmeRenewFraction).
LEMMA Shares == Lifetime \div RenewFraction \in Nat /\ Lifetime \div RenewFraction <= Lifetime
<1> DEFINE share == Lifetime \div RenewFraction
<1>1. share \in Int /\ share >= 0 /\ RenewFraction * share <= Lifetime
  <2>1. \A a \in Nat, q \in Nat \ {0} : a \div q \in Int
    OBVIOUS
  <2>2. \A a \in Nat, q \in Nat \ {0} : a \div q >= 0
    OBVIOUS
  <2>3. \A a \in Nat, q \in Nat \ {0} : q * (a \div q) <= a
    OBVIOUS
  <2> QED
    BY <2>1, <2>2, <2>3, CertsAssumption, Zenon
<1> HIDE DEF share
<1>2. \A d \in Nat, q \in Nat \ {0} : d <= q * d
  OBVIOUS
<1>3. share \in Nat /\ share <= Lifetime
  BY <1>1, <1>2, CertsAssumption
<1> QED
  BY <1>3, Zenon DEF share

\* The bounds are numbers, and each failure adds one longest wait.
LEMMA Budgets ==
  /\ DueAge \in Nat /\ LongestWait \in Nat
  /\ \A n \in Nat : n * LongestWait \in Nat /\ (n + 1) * LongestWait = n * LongestWait + LongestWait
  /\ \A n \in Nat : n <= PromptFailures => n * LongestWait <= PromptFailures * LongestWait
<1>1. LongestWait \in Nat
  BY CertsAssumption DEF LongestWait
<1>2. DueAge \in Nat
  BY Shares, CertsAssumption DEF DueAge
<1>3. \A n, w \in Nat : n * w \in Nat /\ (n + 1) * w = n * w + w
  OBVIOUS
<1>4. \A n, m, w \in Nat : n <= m => n * w <= m * w
  OBVIOUS
<1> QED
  BY <1>1, <1>2, <1>3, <1>4, CertsAssumption, Zenon

\* A start finds nothing cached; then it serves, orders, or fails.
LEMMA LapseBoots ==
  ASSUME pace = "prompt", CertInv, LapseInv, StartUp \/ BootFails
  PROVE  LapseInv'
<1> USE DEF LapseInv
<1>1. mode' = mode /\ certFile' = certFile
  BY Zenon DEF StartUp, BootSelfSigned, BootManual, BootCSR, BootACME, BootOrigin,
         BootFails, disk, limits
<1>2. CASE BootSelfSigned \/ BootManual \/ BootCSR
  <2>1. mode \notin Issuing /\ faults' = faults
    BY <1>2, Zenon DEF BootSelfSigned, BootManual, BootCSR, Issuing, limits
  <2>2. up' \in {"down", "booting", "serving"} /\ loop' \in {"off", "idle"} \cup AtWork /\ {timer', backoff'} \subseteq Nat
    BY <1>2 DEF BootSelfSigned, BootManual, BootCSR, Serving, memory
  <2> QED
    BY <1>1, <2>1, <2>2, Zenon
<1>3. CASE BootACME
  <2>1. /\ mode \in Issuing /\ faults' = faults /\ Cached = NoCert
        /\ up' = "serving" /\ loop' = "idle" /\ timer' = 0 /\ backoff' = 0 /\ current' = Cached
    BY <1>3, Zenon DEF BootACME, Serving, Issuing, limits, Cached, Valid
  <2>2. current'.age = 0
    BY <2>1, Zenon DEF NoCert
  <2> QED
    BY <1>1, <2>1, <2>2, Budgets, CertsAssumption
<1>4. CASE BootOrigin
  <2>1. /\ mode \in Issuing /\ faults' = faults /\ up' = "booting" /\ loop' = "order"
        /\ timer' = timer /\ backoff' = backoff /\ up = "down" /\ loop = "off"
    BY <1>4, Zenon DEF BootOrigin, Issuing, limits, Cached, Valid, CertInv
  <2> QED
    BY <1>1, <2>1, Zenon DEF AtWork
<1>5. CASE BootFails
  <2>1. /\ up = "down" /\ UNCHANGED <<up, loop, timer, backoff, current, fresh>>
        /\ faults < PromptFailures /\ faults' = faults + 1
    BY <1>5, Zenon DEF BootFails, memory, Failure
  <2> QED
    BY <1>1, <2>1, CertsAssumption
<1> QED
  BY <1>2, <1>3, <1>4, <1>5, Zenon DEF StartUp

\* The loop: a look finds the certificate within its budget, a failed attempt waits
\* for no longer than one wait, a stored certificate is new.
LEMMA LapseRuns ==
  ASSUME pace = "prompt", CertInv, LapseInv, Loop \/ Authority \/ AttemptFails
  PROVE  LapseInv'
<1> USE DEF LapseInv
<1>1. mode' = mode /\ mode \in Issuing /\ up # "down"
  BY Zenon DEF Loop, Authority, Check, AuthorizeOrder, SolveAuthorization, Finalize,
         RequestCertificate, StoreKey, StoreCert, AttemptFails, AtWork, limits,
         CertInv
<1>2. DueAge \in Nat /\ LongestWait \in Nat /\ CheckInterval \in Nat /\ faults * LongestWait \in Nat
  BY Budgets, CertsAssumption, Zenon
<1>3. CASE Check
  <2>1. /\ UNCHANGED <<certFile, up, current, fresh, backoff, faults>> /\ loop = "idle" /\ timer = 0
        /\ \/ loop' = "order" /\ timer' = timer
           \/ loop' = loop /\ timer' = CheckInterval /\ ~needsIssuance
    BY <1>3, Zenon DEF Check, disk, limits
  <2>2. current.age \in Nat
    BY AgeIsNat, Zenon DEF CertInv
  <2>3. ~needsIssuance => current.age <= DueAge
    BY <1>2, <2>2, CertsAssumption DEF needsIssuance, NeedsRenewal, DueAge
  <2>4. CASE loop' = "order" /\ timer' = timer
    BY <1>1, <1>2, <2>1, <2>2, <2>4, Zenon DEF AtWork
  <2>5. CASE loop' = loop /\ timer' = CheckInterval /\ ~needsIssuance
    BY <1>1, <1>2, <2>1, <2>2, <2>3, <2>5
  <2> QED
    BY <2>1, <2>4, <2>5, Zenon
<1>4. CASE AuthorizeOrder \/ SolveAuthorization \/ Finalize \/ RequestCertificate \/ StoreKey
  <2>1. /\ UNCHANGED <<certFile, up, current, timer, backoff, faults>> /\ loop \in AtWork
        /\ loop' \in AtWork
        /\ loop' \in {"store_key", "store_cert"} => fresh'.age = 0
    BY <1>1, <1>4 DEF AuthorizeOrder, SolveAuthorization, Finalize, RequestCertificate,
                      StoreKey, AtWork, disk, limits
  <2>2. "idle" \notin AtWork /\ "off" \notin AtWork
    BY Zenon DEF AtWork
  <2> QED
    BY <1>1, <2>1, <2>2, ZenonT(60)
<1>5. CASE StoreCert
  <2>1. /\ up' = "serving" /\ loop' = "idle" /\ timer' = CheckInterval /\ current' = fresh /\ backoff' = 0
        /\ faults' = faults /\ fresh.age = 0
    BY <1>1, <1>5, Zenon DEF StoreCert, Serving, limits
  <2> QED
    BY <1>1, <1>2, <2>1
<1>6. CASE AttemptFails
  <2>1. faults < PromptFailures /\ faults' = faults + 1 /\ loop \in AtWork /\ certFile' = certFile
    BY <1>6, Zenon DEF AttemptFails, Failure, disk
  <2>2. CASE up = "booting"
    <3>1. up' = "down" /\ loop' = "off" /\ timer' = 0 /\ backoff' = 0
      BY <1>6, <2>2, Zenon DEF AttemptFails, GoDown
    <3> QED
      BY <1>1, <2>1, <2>2, <3>1, CertsAssumption
  <2>3. CASE up = "serving"
    <3>1. /\ up' = "serving" /\ loop' = "idle" /\ current' = current
          /\ timer' \in NextBackoff(backoff) /\ backoff' = timer'
      BY <1>6, <2>3, Zenon DEF AttemptFails, Retry
    <3>2. timer' \in Nat /\ timer' <= LongestWait
      BY <3>1, WaitIsBounded, Zenon
    <3>3. current.age \in Nat
      BY AgeIsNat, Zenon DEF CertInv
    <3>4. timer = 0
      BY <1>1, <2>1, Zenon DEF AtWork
    <3>5. current.age <= DueAge + CheckInterval + faults * LongestWait
      BY <1>1, <1>2, <2>3, <3>3, <3>4
    <3>6. faults' * LongestWait = faults * LongestWait + LongestWait
      BY <2>1, Budgets, Zenon
    <3>7. current.age + timer' <= DueAge + CheckInterval + faults' * LongestWait
      BY <1>2, <3>2, <3>3, <3>5, <3>6
    <3> QED
      BY <1>1, <2>1, <3>1, <3>2, <3>7, CertsAssumption
  <2> QED
    BY <1>1, <2>2, <2>3, Zenon
<1> QED
  BY <1>3, <1>4, <1>5, <1>6, Zenon DEF Loop, Authority

\* Nothing stops the process; the operator and the handshakes are other modes'; the
\* clock runs only while the loop waits.
LEMMA LapseSurrounded ==
  ASSUME pace = "prompt", CertInv, LapseInv,
         Handshake \/ Close \/ ProcessDies \/ OperatorInstalls \/ Tick
  PROVE  LapseInv'
<1> USE DEF LapseInv
<1>1. CASE Handshake \/ OperatorInstalls
  <2>1. mode \notin Issuing /\ UNCHANGED <<mode, up, loop, timer, backoff, faults>>
    BY <1>1, Zenon DEF Handshake, OperatorInstalls, Issuing, memory, limits
  <2> QED
    BY <2>1, Zenon
<1>2. CASE Close \/ ProcessDies
  BY <1>2, Zenon DEF Close, ProcessDies, ProcessEnds
<1>3. CASE Tick
  <2>1. /\ UNCHANGED <<mode, up, loop, fresh, backoff, faults>> /\ up = "serving"
        /\ loop \notin AtWork /\ ~(loop = "idle" /\ timer = 0)
        /\ current' = Older(current) /\ timer' = IF timer = 0 THEN 0 ELSE timer - 1
    BY <1>3, Zenon DEF Tick, limits
  <2>2. timer' \in Nat
    BY <2>1
  <2>3. CASE mode \in Issuing
    <3>1. loop = "idle" /\ timer # 0 /\ timer' = timer - 1
      BY <2>1, <2>3, Zenon
    <3>2. current \in CertOrNone /\ current' \in CertOrNone /\ current'.age <= current.age + 1
      BY <2>1, AgesByOne, AgesOnly, CertsAssumption, Zenon DEF CertInv
    <3>3. current.age \in Nat /\ current'.age \in Nat
      BY <3>2, AgeIsNat, Zenon
    <3>4. current'.age + timer' <= DueAge + CheckInterval + faults * LongestWait
      <4>1. DueAge \in Nat /\ CheckInterval \in Nat /\ faults * LongestWait \in Nat
        BY Budgets, CertsAssumption, Zenon
      <4> QED
        BY <2>1, <2>3, <3>1, <3>2, <3>3, <4>1
    <3> QED
      BY <2>1, <2>2, <3>1, <3>4, Zenon
  <2>4. CASE mode \notin Issuing
    BY <2>1, <2>2, <2>4, Zenon
  <2> QED
    BY <2>3, <2>4, Zenon
<1> QED
  BY <1>1, <1>2, <1>3, Zenon

\* A process keeps its pace.
LEMMA PaceKept == ASSUME [CertsNext]_certVars PROVE pace' = pace
BY Zenon DEF CertsNext, certVars, limits, StartUp, Loop, Authority, BootSelfSigned, BootManual, BootCSR, BootACME, BootOrigin,
       BootFails, Check, AuthorizeOrder, SolveAuthorization, Finalize, RequestCertificate, StoreKey,
       StoreCert, AttemptFails, Failure, Handshake, Close, ProcessDies, ProcessEnds, OperatorInstalls, Tick

\* Every step keeps the budget, and the budget ends before the certificate does.
LEMMA LapseSteps ==
  ASSUME pace = "prompt", CertInv, LapseInv, [CertsNext]_certVars
  PROVE  LapseInv'
<1>1. CASE UNCHANGED certVars
  BY <1>1, Zenon DEF LapseInv, certVars, disk, memory, limits
<1> QED
  BY <1>1, LapseBoots, LapseRuns, LapseSurrounded, Zenon DEF CertsNext

\* Within the budget the certificate in use has not expired.
LEMMA WithinBudget ==
  ASSUME CertInv, LapseInv,
         CheckInterval + PromptFailures * LongestWait <= Lifetime \div RenewFraction
  PROVE  NeverLapses
<1> SUFFICES ASSUME mode \in Issuing, up = "serving" PROVE current.age <= Lifetime
  BY Zenon DEF NeverLapses
<1>1. current.age \in Nat /\ timer \in Nat /\ current.age + timer <= DueAge + CheckInterval + faults * LongestWait
  BY AgeIsNat, Zenon DEF CertInv, LapseInv
<1>2. /\ DueAge \in Nat /\ faults * LongestWait \in Nat /\ PromptFailures * LongestWait \in Nat
      /\ faults * LongestWait <= PromptFailures * LongestWait
  BY Budgets, CertsAssumption, Zenon DEF LapseInv
<1>3. Lifetime \div RenewFraction \in Nat /\ DueAge + Lifetime \div RenewFraction = Lifetime
  BY Shares, CertsAssumption DEF DueAge
<1> QED
  BY <1>1, <1>2, <1>3, CertsAssumption

\* For every lifetime, renewal fraction, interval and backoff: while the loop runs
\* promptly in a process that keeps running, the certificate of an issuing mode never
\* lapses, if the last share of its lifetime is long enough for one interval and for
\* the longest wait after each of the failures (acmeNeedsRenewal, nextACMEBackoff).
THEOREM RenewedInTime ==
  ASSUME CheckInterval + PromptFailures * (BackoffMax + BackoffMax \div 4) <= Lifetime \div RenewFraction
  PROVE  CertsSpec => []NeverLapses
<1> DEFINE Held == CertInv /\ (pace = "prompt" => LapseInv)
<1>1. CertsInit => Held
  <2> SUFFICES ASSUME CertsInit PROVE Held
    BY Zenon
  <2>1. /\ up = "down" /\ loop = "off" /\ timer = 0 /\ backoff = 0 /\ faults = 0
        /\ mode \in Issuing => certFile = NoCert
    BY Zenon DEF CertsInit, Issuing
  <2> QED
    BY <2>1, CertStarts, CertsAssumption DEF LapseInv
<1>2. Held /\ [CertsNext]_certVars => Held'
  BY CertSteps, LapseSteps, PaceKept, CertsAssumption, Zenon
<1>3. Held => NeverLapses
  BY WithinBudget, Zenon DEF LongestWait, NeverLapses
<1> QED
  BY <1>1, <1>2, <1>3, PTL DEF CertsSpec
=================================================================================
