-------------------------- MODULE CredentialsProof --------------------------
(***************************************************************************)
(* Proofs about Credentials.                                               *)
(***************************************************************************)
EXTENDS Credentials, TLAPS

-----------------------------------------------------------------------------
(* The inductive invariant.                                                *)

WorldTyped ==
    now \in 0 .. MaxChanges /\ authority \in 0 .. MaxChanges /\ minted \in 0 .. MaxMints

DiskTyped ==
    /\ keyfile \in Keys \cup {None}
    /\ certfile \in [Workspaces -> Certificate \cup {None}]
    /\ metafile \in [Workspaces -> (0 .. MaxChanges + 1) \cup {None}]

StoresTyped ==
    /\ current \in [Clients -> [Workspaces -> Credential \cup {None}]]
    /\ \A p \in Clients, w \in Workspaces :
          current[p][w] # None => current[p][w].cert # None

\* The files that _save has still to write.
ThreeFiles == <<"key", "cert", "meta">>
TwoFiles == <<"cert", "meta">>
LastFile == <<"meta">>

ConnectionsTyped ==
    /\ pc \in [Openers -> Saving \cup
                  {"idle", "ensure", "connect", "renew", "reconnect", "mint"}]
    /\ cred \in [Openers -> Credential \cup {None}]
    /\ newkey \in [Openers -> BOOLEAN]
    /\ rejected \in [Openers -> Credential \cup {None}]
    /\ todo \in [Openers -> {<<>>, ThreeFiles, TwoFiles, LastFile}]

Making(o) == pc[o] \in Saving \cup {"mint"}

LocksTyped ==
    /\ lock \in [Clients -> Openers \cup {None}]
    /\ \A o \in Openers : lock[Home[o]] = o <=> Making(o)

Typed ==
    /\ WorldTyped /\ DiskTyped /\ StoresTyped /\ ConnectionsTyped /\ LocksTyped
    /\ unsaved \in BOOLEAN

\* What a connection has where it is.
InPlace(o) ==
    /\ todo[o] # <<>> <=> pc[o] \in Saving
    /\ cred[o] = None <=> pc[o] \in {"idle", "ensure"}
    /\ pc[o] \in {"idle", "ensure", "connect"} => rejected[o] = None
    /\ pc[o] \in {"renew", "reconnect"} => rejected[o] # None
    /\ pc[o] = "renew" => cred[o] = rejected[o]
    /\ cred[o] # None => (cred[o].cert = None <=> pc[o] = "mint")
    /\ rejected[o] # None => rejected[o].cert # None

\* A certificate was signed, and a credential expires after it was.
Signed(x) == x.serial <= minted /\ x.period <= now /\ x.authority <= authority
Sound(c) == c # None /\ c.cert # None => Signed(c.cert) /\ c.cert.period < c.expires

AllSound ==
    /\ \A w \in Workspaces : certfile[w] # None => Signed(certfile[w])
    /\ \A p \in Clients, w \in Workspaces : Sound(current[p][w])
    /\ \A o \in Openers : Sound(cred[o]) /\ Sound(rejected[o])

\* No one has still to write a certificate that anyone else has or may find.
Pending(o) == todo[o] \in {ThreeFiles, TwoFiles}
Settled(x) == \A q \in Openers : Pending(q) => cred[q].cert # x

AllSettled ==
    /\ \A w \in Workspaces : certfile[w] # None => Settled(certfile[w])
    /\ \A p \in Clients, w \in Workspaces :
          current[p][w] # None => Settled(current[p][w].cert)
    /\ \A o \in Openers : rejected[o] # None => Settled(rejected[o].cert)
    /\ \A o, q \in Openers : cred[o] # None /\ o # q /\ Pending(q) => cred[o].cert # cred[q].cert

\* What a connection is made with is what its store has, or would be refused.
InStore(o) ==
    /\ pc[o] \in {"connect", "reconnect"} => Store(o) = cred[o] \/ ~Accepted(cred[o])
    /\ pc[o] = "renew" => ~Accepted(cred[o])
    /\ Making(o) /\ Store(o) # None => ~Accepted(Store(o))
    /\ Making(o) /\ rejected[o] = None => ~Usable(Store(o))
    /\ Making(o) /\ rejected[o] # None => cred[o].cert # rejected[o].cert
    /\ pc[o] = "reconnect" => cred[o] # rejected[o]

\* c is not in the cache for another client to take up, and never will be.
Replaced(o, c) == unsaved \/ ~Usable(c) \/ certfile[Space[o]] # c.cert

Superseded(o) ==
    /\ pc[o] = "connect" => Store(o) = cred[o] \/ Replaced(o, cred[o])
    /\ pc[o] = "renew" \/ (Making(o) /\ rejected[o] # None) =>
          Store(o) = rejected[o] \/ Replaced(o, rejected[o])
    /\ pc[o] = "reconnect" => Replaced(o, rejected[o])
    /\ todo[o] = LastFile /\ Store(o) # None => Replaced(o, Store(o))

Ordered(o) == InPlace(o) /\ InStore(o) /\ Superseded(o)

CInv == Typed /\ AllSound /\ AllSettled /\ \A o \in Openers : Ordered(o)

-----------------------------------------------------------------------------
(* Lemmas about the operators.                                             *)

\* The files are written one after the other.
LEMMA Files ==
    /\ Head(ThreeFiles) = "key" /\ Tail(ThreeFiles) = TwoFiles
    /\ Head(TwoFiles) = "cert" /\ Tail(TwoFiles) = LastFile
    /\ Head(LastFile) = "meta" /\ Tail(LastFile) = <<>>
    /\ ThreeFiles # TwoFiles /\ TwoFiles # LastFile /\ ThreeFiles # LastFile
    /\ ThreeFiles # <<>> /\ TwoFiles # <<>> /\ LastFile # <<>>
BY DEF ThreeFiles, TwoFiles, LastFile

\* None is none of the values that it is told from.
LEMMA Nothing ==
    /\ None \notin Keys /\ None \notin Openers
    /\ None \notin Certificate /\ None \notin Credential
    /\ None \notin 0 .. MaxChanges + 1
BY NoneAssumption

\* The parts of a credential.
LEMMA Parts ==
    /\ \A c \in Credential : /\ c.key \in Keys /\ c.expires \in 0 .. MaxChanges + 1
                             /\ c.cert \in Certificate \cup {None}
    /\ \A x \in Certificate : /\ x.serial \in 1 .. MaxMints /\ x.key \in Keys
                              /\ x.period \in 0 .. MaxChanges /\ x.authority \in 0 .. MaxChanges
BY DEF Credential, Certificate

\* A connection leads from a client to a workspace.
LEMMA Ends == \A o \in Openers : Home[o] \in Clients /\ Space[o] \in Workspaces
BY DEF Clients, Workspaces

\* What the cache has, if it is usable, is what its files have.
LEMMA Loaded ==
    ASSUME Typed, NEW w \in Workspaces, Usable(Load(w))
    PROVE  /\ Load(w) \in Credential /\ Load(w).cert # None
           /\ Load(w).cert = certfile[w] /\ certfile[w] # None
           /\ Load(w).expires > now
<1>1. keyfile # None
  BY DEF Usable, Load
<1>2. certfile[w] # None /\ metafile[w] # None
  BY <1>1 DEF Usable, Load, Typed, WorldTyped
<1>3. Load(w) = [key |-> keyfile, cert |-> certfile[w], expires |-> metafile[w]]
  BY <1>1, <1>2 DEF Load
<1>4. keyfile \in Keys /\ certfile[w] \in Certificate /\ metafile[w] \in 0 .. MaxChanges + 1
  BY <1>1, <1>2 DEF Typed, DiskTyped
<1>5. Load(w) \in Credential
  BY <1>3, <1>4 DEF Credential
<1> QED
  BY <1>2, <1>3, <1>5 DEF Usable

\* A credential that has expired is not accepted.
LEMMA Expired ==
    ASSUME Typed, NEW c \in Credential, Sound(c), ~Usable(c)
    PROVE  ~Accepted(c)
<1> SUFFICES ASSUME c.cert # None, c.cert.period = now
             PROVE  FALSE
  BY DEF Accepted
<1>1. c.expires \in Nat /\ now \in Nat
  BY Parts, BoundsAssumption DEF Typed, WorldTyped
<1>2. c # None
  BY Nothing
<1>3. now < c.expires
  BY <1>2 DEF Sound
<1> QED
  BY <1>1, <1>2, <1>3 DEF Usable

\* The lock lets one connection of a client make a credential.
LEMMA OneMakes ==
    ASSUME Typed, NEW o \in Openers, NEW q \in Openers, Home[o] = Home[q], Making(q)
    PROVE  /\ lock[Home[o]] # None
           /\ Making(o) => o = q
BY Nothing DEF Typed, LocksTyped

\* What adopting a credential does to the stores.
LEMMA Adopting ==
    ASSUME StoresTyped, NEW o \in Openers, NEW c \in Credential, c.cert # None, Adopt(o, c)
    PROVE  /\ StoresTyped'
           /\ \A q \in Openers :
                 Store(q)' = IF Home[q] = Home[o] /\ Space[q] = Space[o] THEN c ELSE Store(q)
           /\ \A p \in Clients, w \in Workspaces :
                 current'[p][w] = current[p][w] \/ current'[p][w] = c
<1>1. Home[o] \in Clients /\ Space[o] \in Workspaces
  BY Ends
<1>2. \A p \in Clients, w \in Workspaces :
         current'[p][w] = IF p = Home[o] /\ w = Space[o] THEN c ELSE current[p][w]
  BY <1>1 DEF Adopt, StoresTyped
<1>3. current' \in [Clients -> [Workspaces -> Credential \cup {None}]]
  BY <1>1 DEF Adopt, StoresTyped
<1>4. StoresTyped'
  BY <1>2, <1>3 DEF StoresTyped
<1> QED
  BY <1>2, <1>4, Ends DEF Store

-----------------------------------------------------------------------------
(* What a step of one connection means for the others.                     *)

\* It has what it had, if its store is left alone and the cache is not given
\* a certificate that it has.
LEMMA Undisturbed ==
    ASSUME Typed, NEW q \in Openers, Ordered(q),
           now' = now, authority' = authority, unsaved => unsaved',
           pc'[q] = pc[q], cred'[q] = cred[q], rejected'[q] = rejected[q], todo'[q] = todo[q],
           Store(q)' = Store(q),
           \/ certfile'[Space[q]] = certfile[Space[q]]
           \/ /\ pc[q] = "connect" => certfile'[Space[q]] # cred[q].cert
              /\ rejected[q] # None => certfile'[Space[q]] # rejected[q].cert
              /\ Store(q) # None => certfile'[Space[q]] # Store(q).cert
    PROVE  Ordered(q)'
<1>1. InPlace(q)'
  BY DEF Ordered, InPlace
<1>2. InStore(q)'
  BY DEF Ordered, InStore, Making, Accepted, Usable
<1>3. /\ pc[q] = "connect" /\ Replaced(q, cred[q]) => Replaced(q, cred[q])'
      /\ rejected[q] # None /\ Replaced(q, rejected[q]) => Replaced(q, rejected[q])'
      /\ Store(q) # None /\ Replaced(q, Store(q)) => Replaced(q, Store(q))'
  BY DEF Replaced, Usable
<1>4. rejected[q] = None => pc[q] \notin {"renew", "reconnect"}
  BY DEF Ordered, InPlace
<1>5. Superseded(q)'
  BY <1>3, <1>4 DEF Ordered, Superseded, Making
<1> QED
  BY <1>1, <1>2, <1>5 DEF Ordered

\* The same for one that makes nothing, and whose store is given another
\* credential in the place of one that is of no more use.
LEMMA Displaced ==
    ASSUME Typed, NEW q \in Openers, Ordered(q), ~Making(q),
           now' = now, authority' = authority, unsaved => unsaved',
           pc'[q] = pc[q], cred'[q] = cred[q], rejected'[q] = rejected[q], todo'[q] = todo[q],
           certfile' = certfile,
           Store(q) # None => ~Accepted(Store(q)) /\ (unsaved' \/ Replaced(q, Store(q)))
    PROVE  Ordered(q)'
<1>1. InPlace(q)'
  BY DEF Ordered, InPlace
<1>2. cred[q] = None => pc[q] \notin {"connect", "renew", "reconnect"}
  BY DEF Ordered, InPlace
<1>3. rejected[q] = None => pc[q] \notin {"renew", "reconnect"}
  BY DEF Ordered, InPlace
<1>4. InStore(q)'
  <2>1. pc[q] \in {"connect", "reconnect"} => ~Accepted(cred[q])
    BY <1>2 DEF Ordered, InStore
  <2>2. pc[q] \in {"connect", "reconnect"} => ~Accepted(cred[q])'
    BY <2>1 DEF Accepted
  <2>3. pc[q] = "renew" => ~Accepted(cred[q])'
    BY DEF Ordered, InStore, Accepted
  <2> QED
    BY <2>2, <2>3 DEF Ordered, InStore, Making
<1>5. todo[q] # LastFile
  BY Files DEF Ordered, InPlace, Making
<1>6. /\ pc[q] = "connect" => unsaved' \/ Replaced(q, cred[q])
      /\ pc[q] \in {"renew", "reconnect"} => unsaved' \/ Replaced(q, rejected[q])
  BY <1>2, <1>3 DEF Ordered, Superseded
<1>7. /\ pc[q] = "connect" => Replaced(q, cred[q])'
      /\ pc[q] \in {"renew", "reconnect"} => Replaced(q, rejected[q])'
  BY <1>6 DEF Replaced, Usable
<1>8. Superseded(q)'
  BY <1>5, <1>7 DEF Superseded, Making
<1> QED
  BY <1>1, <1>4, <1>8 DEF Ordered

\* Every connection but o is where it was, with what it had.
Apart(o) ==
    \A q \in Openers \ {o} :
       pc'[q] = pc[q] /\ cred'[q] = cred[q] /\ rejected'[q] = rejected[q] /\ todo'[q] = todo[q]

\* Nothing that o does without its stores, or the certificates of the cache,
\* disturbs another connection.
LEMMA OthersInOrder ==
    ASSUME CInv, NEW o \in Openers, Apart(o), now' = now, authority' = authority,
           unsaved => unsaved', current' = current, Ordered(o)',
           \/ certfile' = certfile
           \/ \A q \in Openers \ {o} : \/ certfile'[Space[q]] = certfile[Space[q]]
                 \/ /\ pc[q] = "connect" => certfile'[Space[q]] # cred[q].cert
                    /\ rejected[q] # None => certfile'[Space[q]] # rejected[q].cert
                    /\ Store(q) # None => certfile'[Space[q]] # Store(q).cert
    PROVE  \A q \in Openers : Ordered(q)'
<1> SUFFICES ASSUME NEW q \in Openers, q # o
             PROVE  Ordered(q)'
  OBVIOUS
<1>1. /\ pc'[q] = pc[q] /\ cred'[q] = cred[q] /\ rejected'[q] = rejected[q]
      /\ todo'[q] = todo[q]
  BY DEF Apart
<1>2. Store(q)' = Store(q)
  BY DEF Store
<1> QED
  BY <1>1, <1>2, Undisturbed DEF CInv

\* Nor does it, if nobody else of its client is making one, when o gives its
\* store a credential for one that is of no more use.
LEMMA OthersDisplaced ==
    ASSUME CInv, NEW o \in Openers, Apart(o), now' = now, authority' = authority,
           unsaved => unsaved', certfile' = certfile, Ordered(o)',
           \A q \in Openers : Home[q] = Home[o] /\ Making(q) => q = o,
           NEW c \in Credential, c.cert # None, Adopt(o, c),
           Store(o) # None => ~Accepted(Store(o)) /\ (unsaved' \/ Replaced(o, Store(o)))
    PROVE  \A q \in Openers : Ordered(q)'
<1> SUFFICES ASSUME NEW q \in Openers, q # o
             PROVE  Ordered(q)'
  OBVIOUS
<1>1. /\ pc'[q] = pc[q] /\ cred'[q] = cred[q] /\ rejected'[q] = rejected[q]
      /\ todo'[q] = todo[q]
  BY DEF Apart
<1>2. Typed /\ StoresTyped /\ Ordered(q)
  BY DEF CInv, Typed
<1>3. CASE Home[q] = Home[o] /\ Space[q] = Space[o]
  <2>1. ~Making(q)
    BY <1>3
  <2>2. Store(q) # None => ~Accepted(Store(q)) /\ (unsaved' \/ Replaced(q, Store(q)))
    BY <1>3 DEF Store, Replaced
  <2> QED
    BY <1>1, <1>2, <2>1, <2>2, Displaced
<1>4. CASE ~(Home[q] = Home[o] /\ Space[q] = Space[o])
  <2>1. Store(q)' = Store(q)
    BY <1>2, <1>4, Adopting
  <2> QED
    BY <1>1, <1>2, <2>1, Undisturbed
<1> QED
  BY <1>3, <1>4

-----------------------------------------------------------------------------
(* The parts of the invariant, over the steps of one connection.           *)

\* A connection that goes on with or without the lock, as it was.
LEMMA LockKept ==
    ASSUME LocksTyped, lock' = lock, NEW o \in Openers, Apart(o), Making(o)' <=> Making(o)
    PROVE  LocksTyped'
<1>1. \A q \in Openers : Making(q)' <=> Making(q)
  BY DEF Apart, Making
<1> QED
  BY <1>1 DEF LocksTyped

\* The lock is taken when it is free.
LEMMA LockTaken ==
    ASSUME LocksTyped, NEW o \in Openers, lock[Home[o]] = None,
           lock' = [lock EXCEPT ![Home[o]] = o], Apart(o), Making(o)'
    PROVE  LocksTyped'
<1>1. \A q \in Openers : q # o => (Making(q)' <=> Making(q))
  BY DEF Apart, Making
<1>2. \A q \in Openers : Home[q] = Home[o] => ~Making(q)
  BY Nothing DEF LocksTyped
<1>3. \A p \in Clients : lock'[p] = IF p = Home[o] THEN o ELSE lock[p]
  BY Ends DEF LocksTyped
<1>4. lock' \in [Clients -> Openers \cup {None}]
  BY DEF LocksTyped
<1>5. ASSUME NEW q \in Openers
      PROVE  lock'[Home[q]] = q <=> Making(q)'
  BY <1>1, <1>2, <1>3, Ends DEF LocksTyped
<1> QED
  BY <1>4, <1>5 DEF LocksTyped

\* The lock is released by the one that holds it.
LEMMA LockReleased ==
    ASSUME LocksTyped, NEW o \in Openers, Making(o), Release(o), Apart(o), ~Making(o)'
    PROVE  LocksTyped'
<1>1. \A q \in Openers : q # o => (Making(q)' <=> Making(q))
  BY DEF Apart, Making
<1>2. \A q \in Openers : Home[q] = Home[o] /\ q # o => ~Making(q)
  BY DEF LocksTyped
<1>3. \A p \in Clients : lock'[p] = IF p = Home[o] THEN None ELSE lock[p]
  BY Ends DEF LocksTyped, Release
<1>4. lock' \in [Clients -> Openers \cup {None}]
  BY DEF LocksTyped, Release
<1>5. ASSUME NEW q \in Openers
      PROVE  lock'[Home[q]] = q <=> Making(q)'
  BY <1>1, <1>2, <1>3, Ends, Nothing DEF LocksTyped
<1> QED
  BY <1>4, <1>5 DEF LocksTyped

\* No step makes a certificate but the authority's.
LEMMA SoundKept ==
    ASSUME CInv, world' = world,
           \A w \in Workspaces : \/ certfile'[w] = None \/ certfile'[w] = certfile[w]
                                 \/ \E o \in Openers : /\ cred[o] # None
                                                       /\ certfile'[w] = cred[o].cert,
           \A p \in Clients, w \in Workspaces :
              \/ current'[p][w] = None \/ current'[p][w] = current[p][w]
              \/ \E o \in Openers : current'[p][w] = cred'[o],
           \A o \in Openers : Sound(cred'[o]),
           \A o \in Openers : rejected'[o] = None \/ rejected'[o] = rejected[o]
                              \/ rejected'[o] = cred[o]
    PROVE  AllSound'
<1>1. now' = now /\ authority' = authority /\ minted' = minted
  BY DEF world
<1>2. \A w \in Workspaces : certfile'[w] # None => Signed(certfile'[w])
  BY DEF CInv, AllSound, Sound
<1>3. \A p \in Clients, w \in Workspaces : current'[p][w] = None \/ Sound(current'[p][w])
  BY DEF CInv, AllSound
<1>4. \A o \in Openers : rejected'[o] = None \/ Sound(rejected'[o])
  BY DEF CInv, AllSound
<1> QED
  BY <1>1, <1>2, <1>3, <1>4 DEF AllSound, Sound, Signed

\* What is written, adopted or refused is what o has, and nobody else has it
\* still to write.
LEMMA SettledKept ==
    ASSUME CInv, NEW o \in Openers, Apart(o),
           Pending(o)' => /\ Pending(o) /\ cred'[o] = cred[o] /\ current' = current
                          /\ \A w \in Workspaces :
                                certfile'[w] = None \/ certfile'[w] = certfile[w],
           cred'[o] # None =>
              \A q \in Openers \ {o} : Pending(q) => cred[q].cert # cred'[o].cert,
           rejected'[o] = None \/ rejected'[o] = rejected[o]
              \/ (cred[o] # None /\ rejected'[o] = cred[o] /\ ~Pending(o)'),
           \A p \in Clients, w \in Workspaces :
              \/ current'[p][w] = None \/ current'[p][w] = current[p][w]
              \/ current'[p][w] = cred'[o],
           \A w \in Workspaces :
              \/ certfile'[w] = None \/ certfile'[w] = certfile[w]
              \/ cred'[o] # None /\ certfile'[w] = cred'[o].cert
    PROVE  AllSettled'
<1>1. \A q \in Openers : Pending(q)' => Pending(q) /\ cred'[q] = cred[q]
  BY DEF Apart, Pending
<1>2. ASSUME NEW w \in Workspaces, certfile'[w] # None, NEW q \in Openers, Pending(q)'
      PROVE  cred'[q].cert # certfile'[w]
  BY <1>1, <1>2 DEF CInv, AllSettled, Settled
<1>3. ASSUME NEW p \in Clients, NEW w \in Workspaces, current'[p][w] # None,
             NEW q \in Openers, Pending(q)'
      PROVE  cred'[q].cert # current'[p][w].cert
  BY <1>1, <1>3 DEF CInv, AllSettled, Settled
<1>4. ASSUME NEW q \in Openers, Pending(q)', NEW r \in Openers, rejected'[r] # None
      PROVE  cred'[q].cert # rejected'[r].cert
  <2>1. CASE rejected'[r] = rejected[r]
    BY <1>1, <1>4, <2>1 DEF CInv, AllSettled, Settled
  <2>2. CASE rejected'[r] # rejected[r]
    <3>1. r = o /\ cred[o] # None /\ rejected'[o] = cred[o] /\ q # o
      BY <1>4, <2>2 DEF Apart
    <3> QED
      BY <1>1, <1>4, <3>1 DEF CInv, AllSettled
  <2> QED
    BY <2>1, <2>2
<1>5. ASSUME NEW r \in Openers, NEW q \in Openers, cred'[r] # None, r # q, Pending(q)'
      PROVE  cred'[r].cert # cred'[q].cert
  BY <1>1, <1>5 DEF CInv, AllSettled, Apart
<1> QED
  BY <1>2, <1>3, <1>4, <1>5 DEF AllSettled, Settled

-----------------------------------------------------------------------------
(* The steps.                                                              *)

\* Nobody has still to write nothing.
LEMMA Something == ASSUME CInv, NEW q \in Openers, Pending(q)
                   PROVE  cred[q] # None /\ cred[q].cert # None /\ pc[q] \in Saving
<1>1. todo[q] # <<>>
  BY Files DEF Pending
<1> QED
  BY <1>1 DEF CInv, Ordered, InPlace, Saving

\* The memory has credentials that are sound, and settled; one that is not
\* usable is of no use to anybody.
LEMMA InMemory ==
    ASSUME CInv, NEW o \in Openers, Store(o) # None
    PROVE  /\ Store(o) \in Credential /\ Store(o).cert # None /\ Sound(Store(o))
           /\ Settled(Store(o).cert)
           /\ ~Usable(Store(o)) => ~Accepted(Store(o)) /\ Replaced(o, Store(o))
<1>1. Home[o] \in Clients /\ Space[o] \in Workspaces
  BY Ends
<1>2. Store(o) \in Credential /\ Store(o).cert # None
  BY <1>1 DEF Store, CInv, Typed, StoresTyped
<1>3. Sound(Store(o)) /\ Settled(Store(o).cert)
  BY <1>1 DEF Store, CInv, AllSound, AllSettled
<1>4. ~Usable(Store(o)) => ~Accepted(Store(o))
  BY <1>2, <1>3, Expired DEF CInv
<1> QED
  BY <1>2, <1>3, <1>4 DEF Replaced

\* So has the cache, if what it has is usable.
LEMMA InCache ==
    ASSUME CInv, NEW w \in Workspaces, Usable(Load(w))
    PROVE  /\ Load(w) \in Credential /\ Load(w).cert # None /\ Sound(Load(w))
           /\ Settled(Load(w).cert)
<1>1. /\ Load(w) \in Credential /\ Load(w).cert # None
      /\ Load(w).cert = certfile[w] /\ certfile[w] # None /\ Load(w).expires > now
  BY Loaded DEF CInv
<1>2. Signed(Load(w).cert) /\ Settled(Load(w).cert)
  BY <1>1 DEF CInv, AllSound, AllSettled
<1>3. Load(w).cert \in Certificate
  BY <1>1, Parts
<1>4. Load(w).cert.period \in Nat /\ Load(w).expires \in Nat /\ now \in Nat
  BY <1>1, <1>3, Parts, BoundsAssumption DEF CInv, Typed, WorldTyped
<1>5. Load(w).cert.period <= now
  BY <1>2 DEF Signed
<1>6. Load(w).cert.period < Load(w).expires
  BY <1>1, <1>4, <1>5
<1> QED
  BY <1>1, <1>2, <1>6 DEF Sound

\* _open_connection is over.
LEMMA Leaving ==
    ASSUME CInv, NEW o \in Openers, Leave(o), pc[o] \notin Saving,
           UNCHANGED <<world, disk, current, todo, unsaved>>,
           (lock' = lock /\ ~Making(o)) \/ (Release(o) /\ Making(o))
    PROVE  CInv'
<1>1. /\ pc'[o] = "idle" /\ cred'[o] = None /\ newkey'[o] = FALSE /\ rejected'[o] = None
      /\ Apart(o) /\ ConnectionsTyped'
  BY Nothing DEF CInv, Typed, ConnectionsTyped, Leave, Goto, Apart
<1>2. /\ now' = now /\ authority' = authority /\ minted' = minted /\ todo' = todo
      /\ keyfile' = keyfile /\ certfile' = certfile /\ metafile' = metafile
      /\ current' = current /\ unsaved' = unsaved
  BY DEF world, disk
<1>3. LocksTyped'
  BY <1>1, LockKept, LockReleased DEF CInv, Typed, Making, Saving
<1>4. Typed'
  BY <1>1, <1>2, <1>3 DEF CInv, Typed, WorldTyped, DiskTyped, StoresTyped
<1>5. AllSound'
  <2>1. \A q \in Openers : Sound(cred'[q])
    BY <1>1 DEF Apart, CInv, AllSound, Sound
  <2> QED
    BY <1>1, <1>2, <2>1, SoundKept DEF Apart
<1>6. todo[o] = <<>> /\ ~Pending(o)'
  BY <1>2, Files DEF CInv, Ordered, InPlace, Pending
<1>7. AllSettled'
  BY <1>1, <1>2, <1>6, SettledKept
<1>8. Ordered(o)'
  BY <1>1, <1>2, <1>6, Files DEF Ordered, InPlace, InStore, Superseded, Making, Saving
<1>9. \A q \in Openers : Ordered(q)'
  BY <1>1, <1>2, <1>8, OthersInOrder
<1> QED
  BY <1>4, <1>5, <1>7, <1>9 DEF CInv

\* A connection takes what is in memory, or waits for the lock.
LEMMA EnsureKeeps == ASSUME CInv, NEW o \in Openers, Ensure(o) PROVE CInv'
<1>1. /\ now' = now /\ authority' = authority /\ minted' = minted /\ todo' = todo
      /\ keyfile' = keyfile /\ certfile' = certfile /\ metafile' = metafile
      /\ current' = current /\ unsaved' = unsaved /\ lock' = lock
      /\ rejected' = rejected /\ newkey' = newkey
  BY DEF Ensure, world, disk
<1>2. pc[o] = "idle" /\ cred[o] = None /\ rejected[o] = None /\ todo[o] = <<>>
  BY DEF Ensure, CInv, Ordered, InPlace, Saving
<1>3. \/ pc'[o] = "connect" /\ Usable(Store(o)) /\ cred'[o] = Store(o)
      \/ pc'[o] = "ensure" /\ cred'[o] = None
  BY <1>2, Nothing DEF Ensure, Present, Goto, CInv, Typed, ConnectionsTyped
<1>4. Store(o) # None => Store(o) \in Credential
  BY InMemory
<1>5. Apart(o) /\ ConnectionsTyped'
  <2>1. Apart(o)
    BY <1>1 DEF Ensure, Present, Goto, CInv, Typed, ConnectionsTyped, Apart
  <2>2. pc' \in [Openers -> Saving \cup {"idle", "ensure", "connect", "renew", "reconnect", "mint"}]
    BY DEF Ensure, Present, Goto, CInv, Typed, ConnectionsTyped
  <2>3. cred' \in [Openers -> Credential \cup {None}]
    BY <1>4 DEF Ensure, Present, CInv, Typed, ConnectionsTyped
  <2> QED
    BY <1>1, <2>1, <2>2, <2>3 DEF CInv, Typed, ConnectionsTyped
<1>6. Making(o)' <=> Making(o)
  BY <1>2, <1>3 DEF Making, Saving
<1>7. Typed'
  <2>1. LocksTyped'
    BY <1>1, <1>5, <1>6, LockKept DEF CInv, Typed
  <2> QED
    BY <1>1, <1>5, <2>1 DEF CInv, Typed, WorldTyped, DiskTyped, StoresTyped
<1>8. cred'[o] # None => /\ cred'[o] = Store(o) /\ cred'[o].cert # None 
                         /\ Sound(cred'[o]) /\ Settled(cred'[o].cert)
  BY <1>3, InMemory
<1>9. AllSound'
  <2>1. \A q \in Openers : Sound(cred'[q])
    BY <1>5, <1>8 DEF Apart, CInv, AllSound, Sound
  <2> QED
    BY <1>1, <2>1, SoundKept DEF world
<1>10. AllSettled'
  <2>1. ~Pending(o)'
    BY <1>1, <1>2, Files DEF Pending
  <2> QED
    BY <1>1, <1>5, <1>8, <2>1, SettledKept DEF Settled
<1>11. Ordered(o)'
  <2>1. InPlace(o)'
    BY <1>1, <1>2, <1>3, <1>8, Nothing DEF InPlace, Saving, Usable
  <2>2. Store(o)' = Store(o)
    BY <1>1 DEF Store
  <2>3. InStore(o)' /\ Superseded(o)'
    BY <1>1, <1>2, <1>3, <2>2, Files DEF InStore, Superseded, Making, Saving
  <2> QED
    BY <2>1, <2>3 DEF Ordered
<1>12. \A q \in Openers : Ordered(q)'
  BY <1>1, <1>5, <1>11, OthersInOrder
<1> QED
  BY <1>7, <1>9, <1>10, <1>12 DEF CInv

\* It holds the lock while it asks for a certificate.
LEMMA Requesting ==
    ASSUME CInv, NEW o \in Openers, RequestCertificate(o), pc[o] \in {"ensure", "renew"},
           lock[Home[o]] = None, UNCHANGED <<world, disk, current, rejected, todo, unsaved>>,
           Store(o) # None => ~Accepted(Store(o)), pc[o] = "ensure" => ~Usable(Store(o))
    PROVE  CInv'
<1>1. /\ now' = now /\ authority' = authority /\ minted' = minted /\ todo' = todo
      /\ keyfile' = keyfile /\ certfile' = certfile /\ metafile' = metafile
      /\ current' = current /\ unsaved' = unsaved /\ rejected' = rejected
  BY DEF world, disk
<1>2. todo[o] = <<>> /\ ~Pending(o)'
  BY <1>1, Files DEF CInv, Ordered, InPlace, Pending, Saving
<1>3. PICK k \in (IF keyfile = None THEN Keys ELSE {keyfile}) :
         cred' = [cred EXCEPT ![o] = [key |-> k, cert |-> None, expires |-> 0]]
  BY DEF RequestCertificate
<1>4. k \in Keys
  BY DEF CInv, Typed, DiskTyped
<1>5. 0 \in 0 .. MaxChanges + 1
  BY BoundsAssumption
<1>6. [key |-> k, cert |-> None, expires |-> 0] \in Credential
  BY <1>4, <1>5 DEF Credential
<1>7. pc'[o] = "mint" /\ cred'[o] # None /\ cred'[o].cert = None
  BY <1>3, <1>6, Nothing DEF RequestCertificate, Goto, CInv, Typed, ConnectionsTyped
<1>8. Apart(o)
  BY <1>1, <1>3 DEF RequestCertificate, Goto, CInv, Typed, ConnectionsTyped, Apart
<1>9. Typed'
  <2>1. pc' \in [Openers -> Saving \cup {"idle", "ensure", "connect", "renew", "reconnect", "mint"}]
    BY DEF RequestCertificate, Goto, CInv, Typed, ConnectionsTyped
  <2>2. cred' \in [Openers -> Credential \cup {None}]
    BY <1>3, <1>6 DEF CInv, Typed, ConnectionsTyped
  <2>3. newkey' \in [Openers -> BOOLEAN]
    BY DEF RequestCertificate, CInv, Typed, ConnectionsTyped
  <2>4. ConnectionsTyped'
    BY <1>1, <2>1, <2>2, <2>3 DEF CInv, Typed, ConnectionsTyped
  <2>5. Making(o)'
    BY <1>7 DEF Making
  <2>6. LocksTyped'
    BY <1>8, <2>5, LockTaken DEF CInv, Typed, RequestCertificate
  <2> QED
    BY <1>1, <2>4, <2>6 DEF CInv, Typed, WorldTyped, DiskTyped, StoresTyped
<1>10. AllSound'
  <2>1. \A q \in Openers : Sound(cred'[q])
    BY <1>7, <1>8 DEF Apart, CInv, AllSound, Sound
  <2> QED
    BY <1>1, <2>1, SoundKept DEF world
<1>11. AllSettled'
  BY <1>1, <1>2, <1>7, <1>8, Something, SettledKept
<1>12. Ordered(o)'
  <2>1. Store(o)' = Store(o) /\ rejected'[o] = rejected[o] /\ todo'[o] = <<>>
    BY <1>1, <1>2 DEF Store
  <2>2. InPlace(o)'
    BY <1>7, <2>1 DEF CInv, Ordered, InPlace, Saving
  <2>3. rejected[o] = None => pc[o] = "ensure"
    BY DEF CInv, Ordered, InPlace
  <2>4. rejected[o] # None => pc[o] = "renew" /\ rejected[o].cert # None
    BY DEF CInv, Ordered, InPlace
  <2>5. InStore(o)'
    BY <1>1, <1>7, <2>1, <2>3, <2>4 DEF InStore, Making, Saving, Accepted, Usable
  <2>6. Superseded(o)'
    BY <1>1, <1>7, <2>1, <2>4, Files DEF CInv, Ordered, Superseded, Making, Replaced, Usable
  <2> QED
    BY <2>2, <2>5, <2>6 DEF Ordered
<1>13. \A q \in Openers : Ordered(q)'
  BY <1>1, <1>8, <1>12, OthersInOrder
<1> QED
  BY <1>9, <1>10, <1>11, <1>13 DEF CInv

\* It goes on with what somebody of its client has got in the meantime.
LEMMA Taking ==
    ASSUME CInv, NEW o \in Openers, NEW place \in {"connect", "reconnect"},
           Usable(Store(o)), Present(o, Store(o), place),
           IF place = "connect" THEN pc[o] = "ensure" ELSE pc[o] = "renew" /\ Store(o) # cred[o],
           UNCHANGED <<world, disk, current, lock, newkey, rejected, todo, unsaved>>
    PROVE  CInv'
<1>1. /\ now' = now /\ authority' = authority /\ minted' = minted /\ todo' = todo
      /\ keyfile' = keyfile /\ certfile' = certfile /\ metafile' = metafile
      /\ current' = current /\ unsaved' = unsaved /\ lock' = lock
      /\ rejected' = rejected /\ newkey' = newkey
  BY DEF world, disk
<1>2. Store(o) # None
  BY DEF Usable
<1>3. /\ Store(o) \in Credential /\ Store(o).cert # None /\ Sound(Store(o))
      /\ Settled(Store(o).cert)
  BY <1>2, InMemory
<1>4. pc'[o] = place /\ cred'[o] = Store(o) /\ Apart(o)
  BY <1>1 DEF Present, Goto, CInv, Typed, ConnectionsTyped, Apart
<1>5. todo[o] = <<>> /\ ~Pending(o)'
  BY <1>1, Files DEF CInv, Ordered, InPlace, Pending, Saving
<1>6. Typed'
  <2>1. pc' \in [Openers -> Saving \cup {"idle", "ensure", "connect", "renew", "reconnect", "mint"}]
    BY DEF Present, Goto, CInv, Typed, ConnectionsTyped
  <2>2. cred' \in [Openers -> Credential \cup {None}]
    BY <1>3 DEF Present, CInv, Typed, ConnectionsTyped
  <2>3. ConnectionsTyped'
    BY <1>1, <2>1, <2>2 DEF CInv, Typed, ConnectionsTyped
  <2>4. Making(o)' <=> Making(o)
    BY <1>4 DEF Making, Saving
  <2>5. LocksTyped'
    BY <1>1, <1>4, <2>4, LockKept DEF CInv, Typed
  <2> QED
    BY <1>1, <2>3, <2>5 DEF CInv, Typed, WorldTyped, DiskTyped, StoresTyped
<1>7. AllSound'
  <2>1. \A q \in Openers : Sound(cred'[q])
    BY <1>3, <1>4 DEF Apart, CInv, AllSound
  <2> QED
    BY <1>1, <2>1, SoundKept DEF world
<1>8. AllSettled'
  BY <1>1, <1>3, <1>4, <1>5, SettledKept DEF Settled
<1>9. Ordered(o)'
  <2>1. Store(o)' = Store(o) /\ rejected'[o] = rejected[o] /\ todo'[o] = <<>>
    BY <1>1, <1>5 DEF Store
  <2>2. InPlace(o)'
    BY <1>2, <1>3, <1>4, <2>1 DEF CInv, Ordered, InPlace, Saving
  <2>3. place = "reconnect" => pc[o] = "renew" /\ cred[o] = rejected[o] /\ Store(o) # rejected[o]
    BY DEF CInv, Ordered, InPlace
  <2>4. InStore(o)'
    BY <1>4, <2>1, <2>3 DEF InStore, Making, Saving
  <2>5. Superseded(o)'
    BY <1>1, <1>4, <2>1, <2>3, Files DEF CInv, Ordered, Superseded, Making, Saving, Replaced, Usable
  <2> QED
    BY <2>2, <2>4, <2>5 DEF Ordered
<1>10. \A q \in Openers : Ordered(q)'
  BY <1>1, <1>4, <1>9, OthersInOrder
<1> QED
  BY <1>6, <1>7, <1>8, <1>10 DEF CInv

\* It adopts what the cache has, which another client has put there.
LEMMA Reading ==
    ASSUME CInv, NEW o \in Openers, pc[o] = "ensure", lock[Home[o]] = None,
           ~Usable(Store(o)), Usable(Load(Space[o])),
           Adopt(o, Load(Space[o])), Present(o, Load(Space[o]), "connect"),
           UNCHANGED <<world, disk, lock, newkey, rejected, todo, unsaved>>
    PROVE  CInv'
<1>1. /\ now' = now /\ authority' = authority /\ minted' = minted /\ todo' = todo
      /\ keyfile' = keyfile /\ certfile' = certfile /\ metafile' = metafile
      /\ unsaved' = unsaved /\ lock' = lock /\ rejected' = rejected /\ newkey' = newkey
  BY DEF world, disk
<1>2. PICK c : c = Load(Space[o])
  OBVIOUS
<1>3. /\ c \in Credential /\ c.cert # None /\ Sound(c) /\ Settled(c.cert)
  BY <1>2, Ends, InCache
<1>4. /\ pc'[o] = "connect" /\ cred'[o] = c /\ Apart(o) /\ Adopt(o, c)
  BY <1>1, <1>2 DEF Present, Goto, CInv, Typed, ConnectionsTyped, Apart
<1>5. todo[o] = <<>> /\ ~Pending(o)' /\ rejected[o] = None
  BY <1>1, Files DEF CInv, Ordered, InPlace, Pending, Saving
<1>6. /\ StoresTyped' /\ Store(o)' = c
      /\ \A p \in Clients, w \in Workspaces :
            current'[p][w] = current[p][w] \/ current'[p][w] = cred'[o]
  BY <1>3, <1>4, Adopting DEF CInv, Typed
<1>7. Typed'
  <2>1. pc' \in [Openers -> Saving \cup {"idle", "ensure", "connect", "renew", "reconnect", "mint"}]
    BY DEF Present, Goto, CInv, Typed, ConnectionsTyped
  <2>2. cred' \in [Openers -> Credential \cup {None}]
    BY <1>2, <1>3 DEF Present, CInv, Typed, ConnectionsTyped
  <2>3. ConnectionsTyped'
    BY <1>1, <2>1, <2>2 DEF CInv, Typed, ConnectionsTyped
  <2>4. Making(o)' <=> Making(o)
    BY <1>4 DEF Making, Saving
  <2>5. LocksTyped'
    BY <1>1, <1>4, <2>4, LockKept DEF CInv, Typed
  <2> QED
    BY <1>1, <1>6, <2>3, <2>5 DEF CInv, Typed, WorldTyped, DiskTyped
<1>8. AllSound'
  <2>1. \A q \in Openers : Sound(cred'[q])
    BY <1>3, <1>4 DEF Apart, CInv, AllSound
  <2> QED
    BY <1>1, <1>6, <2>1, SoundKept DEF world
<1>9. AllSettled'
  BY <1>1, <1>3, <1>4, <1>5, <1>6, SettledKept DEF Settled
<1>10. Ordered(o)'
  <2>1. InPlace(o)'
    BY <1>1, <1>3, <1>4, <1>5, Nothing DEF InPlace, Saving
  <2>2. InStore(o)' /\ Superseded(o)'
    BY <1>1, <1>4, <1>5, <1>6, Files DEF InStore, Superseded, Making, Saving
  <2> QED
    BY <2>1, <2>2 DEF Ordered
<1>11. \A q \in Openers : Home[q] = Home[o] /\ Making(q) => q = o
  BY OneMakes DEF CInv
<1>12. Store(o) # None => ~Accepted(Store(o)) /\ (unsaved' \/ Replaced(o, Store(o)))
  BY InMemory
<1>13. \A q \in Openers : Ordered(q)'
  BY <1>1, <1>3, <1>4, <1>10, <1>11, <1>12, OthersDisplaced
<1> QED
  BY <1>7, <1>8, <1>9, <1>13 DEF CInv

\* With the lock, a connection looks once more, then into the cache.
LEMMA EnsureLockedKeeps == ASSUME CInv, NEW o \in Openers, EnsureLocked(o) PROVE CInv'
<1>1. pc[o] = "ensure" /\ lock[Home[o]] = None
  BY DEF EnsureLocked
<1>2. UNCHANGED <<world, disk, rejected, todo, unsaved>>
  BY DEF EnsureLocked
<1>3. CASE Usable(Store(o)) /\ Present(o, Store(o), "connect") /\ UNCHANGED <<current, lock, newkey>>
  BY <1>1, <1>2, <1>3, Taking
<1>4. CASE /\ ~Usable(Store(o)) /\ Usable(Load(Space[o]))
           /\ Adopt(o, Load(Space[o])) /\ Present(o, Load(Space[o]), "connect")
           /\ UNCHANGED <<lock, newkey>>
  BY <1>1, <1>2, <1>4, Reading
<1>5. CASE ~Usable(Store(o)) /\ RequestCertificate(o) /\ UNCHANGED current
  <2>1. Store(o) # None => ~Accepted(Store(o))
    BY <1>5, InMemory
  <2> QED
    BY <1>1, <1>2, <1>5, <2>1, Requesting
<1> QED
  BY <1>3, <1>4, <1>5 DEF EnsureLocked

\* One that was refused asks for a certificate, if nobody has been first.
LEMMA RenewLockedKeeps == ASSUME CInv, NEW o \in Openers, RenewLocked(o) PROVE CInv'
<1>1. pc[o] = "renew" /\ lock[Home[o]] = None
  BY DEF RenewLocked
<1>2. UNCHANGED <<world, disk, current, rejected, todo, unsaved>>
  BY DEF RenewLocked
<1>3. CASE /\ Store(o) # cred[o] /\ Usable(Store(o)) /\ Present(o, Store(o), "reconnect")
           /\ UNCHANGED <<lock, newkey>>
  BY <1>1, <1>2, <1>3, Taking
<1>4. CASE (Store(o) = cred[o] \/ ~Usable(Store(o))) /\ RequestCertificate(o)
  <2>1. Store(o) # None => ~Accepted(Store(o))
    BY <1>1, <1>4, InMemory DEF CInv, Ordered, InStore
  <2> QED
    BY <1>1, <1>2, <1>4, <2>1, Requesting
<1> QED
  BY <1>3, <1>4 DEF RenewLocked

\* A credential is adopted by the one that has made it, and the lock released.
LEMMA Holding ==
    ASSUME CInv, NEW o \in Openers, Making(o), NEW c \in Credential, c.cert # None, Sound(c)',
           Minted(o, c), cred'[o] = c, todo'[o] = <<>>, Apart(o), ConnectionsTyped',
           certfile' = certfile, rejected' = rejected, unsaved => unsaved',
           now' = now, authority' = authority,
           Store(o) # None => unsaved' \/ Replaced(o, Store(o)),
           rejected[o] # None => c.cert # rejected[o].cert
    PROVE  /\ StoresTyped' /\ LocksTyped'
           /\ \A p \in Clients, w \in Workspaces :
                 current'[p][w] = current[p][w] \/ current'[p][w] = cred'[o]
           /\ \A q \in Openers : Ordered(q)'
<1>1. Adopt(o, c) /\ Release(o) /\ pc'[o] = Attempt(o)
  BY DEF Minted, Goto, CInv, Typed, ConnectionsTyped
<1>2. /\ StoresTyped' /\ Store(o)' = c
      /\ \A p \in Clients, w \in Workspaces :
            current'[p][w] = current[p][w] \/ current'[p][w] = cred'[o]
  BY <1>1, Adopting DEF CInv, Typed
<1>3. pc'[o] = IF rejected[o] # None THEN "reconnect" ELSE "connect"
  BY <1>1 DEF Attempt
<1>4. LocksTyped'
  <2>1. ~Making(o)'
    BY <1>3 DEF Making, Saving
  <2> QED
    BY <1>1, <2>1, LockReleased DEF CInv, Typed
<1>5. Ordered(o)'
  <2>1. InPlace(o)'
    BY <1>3, Nothing DEF CInv, Ordered, InPlace, Saving
  <2>2. InStore(o)'
    BY <1>2, <1>3 DEF InStore, Making, Saving
  <2>3. rejected[o] # None => unsaved' \/ Replaced(o, rejected[o])
    BY DEF CInv, Ordered, Superseded
  <2>4. rejected[o] # None => Replaced(o, rejected[o])'
    BY <2>3 DEF Replaced, Usable
  <2>5. Superseded(o)'
    BY <1>2, <1>3, <2>4, Files DEF Superseded, Making, Saving
  <2> QED
    BY <2>1, <2>2, <2>5 DEF Ordered
<1>6. \A q \in Openers : Home[q] = Home[o] /\ Making(q) => q = o
  BY OneMakes DEF CInv
<1>7. Store(o) # None => ~Accepted(Store(o)) /\ (unsaved' \/ Replaced(o, Store(o)))
  BY DEF CInv, Ordered, InStore
<1>8. \A q \in Openers : Ordered(q)'
  BY <1>1, <1>5, <1>6, <1>7, OthersDisplaced
<1> QED
  BY <1>2, <1>4, <1>8

\* A certificate that is new is nobody's yet.
LEMMA Fresh ==
    ASSUME CInv, NEW x \in Certificate, x.serial = minted + 1
    PROVE  /\ \A w \in Workspaces : certfile[w] # x
           /\ \A p \in Clients, w \in Workspaces :
                 current[p][w] # None => current[p][w].cert # x
           /\ \A q \in Openers : /\ cred[q] # None => cred[q].cert # x
                                 /\ rejected[q] # None => rejected[q].cert # x
<1>1. minted \in Nat
  BY BoundsAssumption DEF CInv, Typed, WorldTyped
<1>2. ~Signed(x)
  BY <1>1 DEF Signed
<1>3. x # None
  BY Nothing
<1> QED
  BY <1>2, <1>3 DEF CInv, AllSound, Sound

\* The authority signs; the credential is saved, unless a sibling of the same
\* burst was first.
LEMMA CertifiedKeeps == ASSUME CInv, NEW o \in Openers, Certified(o) PROVE CInv'
<1>1. pc[o] = "mint" /\ minted < MaxMints /\ minted' = minted + 1
  BY DEF Certified
<1>2. /\ now' = now /\ authority' = authority /\ rejected' = rejected /\ unsaved' = unsaved
      /\ keyfile' = keyfile /\ certfile' = certfile /\ metafile' = metafile
  BY DEF Certified, disk
<1>3. PICK c : c = [key |-> cred[o].key,
                    cert |-> [serial |-> minted + 1, key |-> cred[o].key,
                              period |-> now, authority |-> authority],
                    expires |-> now + 1]
  OBVIOUS
<1>4. /\ now \in Nat /\ authority \in Nat /\ minted \in Nat
      /\ now \in 0 .. MaxChanges /\ authority \in 0 .. MaxChanges
  BY BoundsAssumption DEF CInv, Typed, WorldTyped
<1>5. now + 1 \in 0 .. MaxChanges + 1 /\ minted + 1 \in 1 .. MaxMints
  BY <1>1, <1>4, BoundsAssumption
<1>6. cred[o] # None /\ todo[o] = <<>> /\ cred[o] \in Credential
  BY <1>1 DEF CInv, Ordered, InPlace, Saving, Typed, ConnectionsTyped
<1>7. c.cert \in Certificate /\ c \in Credential /\ c.cert # None /\ c # None
  <2>1. cred[o].key \in Keys
    BY <1>6, Parts
  <2>2. c.cert \in Certificate
    BY <1>3, <1>4, <1>5, <2>1 DEF Certificate
  <2>3. c \in Credential
    BY <1>3, <1>5, <2>1, <2>2 DEF Credential
  <2> QED
    BY <2>2, <2>3, Nothing
<1>8. /\ \A w \in Workspaces : certfile[w] # c.cert
      /\ \A p \in Clients, w \in Workspaces :
            current[p][w] # None => current[p][w].cert # c.cert
      /\ \A q \in Openers : /\ cred[q] # None => cred[q].cert # c.cert
                            /\ rejected[q] # None => rejected[q].cert # c.cert
  <2>1. c.cert.serial = minted + 1
    BY <1>3
  <2> QED
    BY <1>7, <2>1, Fresh
<1>9. Sound(c)'
  BY <1>1, <1>2, <1>3, <1>4 DEF Sound, Signed
<1>10. \A y : Sound(y) /\ (y # None => y \in Credential) => Sound(y)'
  <2> SUFFICES ASSUME NEW y, Sound(y), y # None, y \in Credential, y.cert # None
               PROVE  Signed(y.cert)'
    BY DEF Sound
  <2>1. Signed(y.cert)
    BY DEF Sound
  <2>2. y.cert.serial \in Nat
    BY Parts, BoundsAssumption
  <2> QED
    BY <1>1, <1>2, <1>4, <2>1, <2>2 DEF Signed
<1>11. \/ SameBurst(o, c) /\ Minted(o, c) /\ todo' = todo
       \/ /\ todo' = [todo EXCEPT ![o] = IF newkey[o] THEN ThreeFiles ELSE TwoFiles]
          /\ Goto(o, "truncate") /\ UNCHANGED <<current, lock, newkey>>
  BY <1>3 DEF Certified, ThreeFiles, TwoFiles
<1>12. cred' = [cred EXCEPT ![o] = c]
  BY <1>3 DEF Certified
<1>13. cred'[o] = c /\ Apart(o)
  <2>1. \A q \in Openers \ {o} : pc'[q] = pc[q] /\ todo'[q] = todo[q]
    BY <1>11 DEF Minted, Goto, CInv, Typed, ConnectionsTyped
  <2> QED
    BY <1>2, <1>12, <2>1 DEF CInv, Typed, ConnectionsTyped, Apart
<1>14. ConnectionsTyped'
  <2>1. pc' \in [Openers -> Saving \cup {"idle", "ensure", "connect", "renew", "reconnect", "mint"}]
    BY <1>11 DEF Minted, Attempt, Goto, CInv, Typed, ConnectionsTyped, Saving
  <2>2. cred' \in [Openers -> Credential \cup {None}]
    BY <1>7, <1>12 DEF CInv, Typed, ConnectionsTyped
  <2>3. newkey' \in [Openers -> BOOLEAN]
    BY <1>11 DEF Minted, CInv, Typed, ConnectionsTyped
  <2>4. todo' \in [Openers -> {<<>>, ThreeFiles, TwoFiles, LastFile}]
    BY <1>11 DEF CInv, Typed, ConnectionsTyped
  <2> QED
    BY <1>2, <2>1, <2>2, <2>3, <2>4 DEF CInv, Typed, ConnectionsTyped
<1>15. WorldTyped' /\ DiskTyped' /\ (unsaved \in BOOLEAN)'
  <2>1. minted' \in 0 .. MaxMints
    BY <1>1, <1>4, BoundsAssumption
  <2> QED
    BY <1>2, <2>1 DEF CInv, Typed, WorldTyped, DiskTyped
<1>16. /\ StoresTyped' /\ LocksTyped'
       /\ \A p \in Clients, w \in Workspaces :
             current'[p][w] = current[p][w] \/ (current'[p][w] = c /\ ~Pending(o)')
       /\ \A q \in Openers : Ordered(q)'
  <2>1. CASE SameBurst(o, c) /\ Minted(o, c) /\ todo' = todo
    <3>1. Making(o)
      BY <1>1 DEF Making
    <3>2. rejected[o] = None
      BY <2>1 DEF SameBurst
    <3>3. Store(o) # None => unsaved' \/ Replaced(o, Store(o))
      BY <3>1, <3>2, InMemory DEF CInv, Ordered, InStore
    <3>4. todo'[o] = <<>> /\ ~Pending(o)'
      BY <1>6, <2>1, Files DEF Pending
    <3> QED
      BY <1>2, <1>7, <1>9, <1>13, <1>14, <2>1, <3>1, <3>2, <3>3, <3>4, Holding
  <2>2. CASE /\ todo' = [todo EXCEPT ![o] = IF newkey[o] THEN ThreeFiles ELSE TwoFiles]
             /\ Goto(o, "truncate") /\ UNCHANGED <<current, lock, newkey>>
    <3>1. /\ pc'[o] = "truncate" /\ todo'[o] \in {ThreeFiles, TwoFiles}
          /\ current' = current /\ lock' = lock
      BY <2>2 DEF Goto, CInv, Typed, ConnectionsTyped
    <3>2. Making(o) /\ Making(o)'
      BY <1>1, <3>1 DEF Making, Saving
    <3>3. LocksTyped'
      BY <1>13, <3>1, <3>2, LockKept DEF CInv, Typed
    <3>4. Store(o)' = Store(o)
      BY <3>1 DEF Store
    <3>5. InPlace(o)'
      BY <1>2, <1>7, <1>13, <3>1, Files DEF CInv, Ordered, InPlace, Saving
    <3>6. InStore(o)'
      BY <1>2, <1>7, <1>8, <1>13, <3>1, <3>2, <3>4
         DEF CInv, Ordered, InStore, Making, Saving, Accepted, Usable
    <3>7. rejected[o] # None => Store(o) = rejected[o] \/ Replaced(o, rejected[o])
      BY <3>2 DEF CInv, Ordered, Superseded
    <3>8. Superseded(o)'
      BY <1>2, <3>1, <3>4, <3>7, Files DEF Superseded, Making, Saving, Replaced, Usable
    <3>9. \A q \in Openers : Ordered(q)'
      BY <1>2, <1>13, <3>1, <3>5, <3>6, <3>8, OthersInOrder DEF Ordered
    <3>10. StoresTyped'
      BY <3>1 DEF CInv, Typed, StoresTyped
    <3> QED
      BY <3>1, <3>3, <3>9, <3>10
  <2> QED
    BY <1>11, <2>1, <2>2
<1>17. AllSound'
  <2>1. \A w \in Workspaces : certfile[w] # None => Signed(certfile[w])'
    <3> SUFFICES ASSUME NEW w \in Workspaces, certfile[w] # None
                 PROVE  certfile[w].serial <= minted' /\ certfile[w].period <= now'
                        /\ certfile[w].authority <= authority'
      BY <1>2 DEF Signed
    <3>1. certfile[w].serial \in Nat
      BY Parts, BoundsAssumption DEF CInv, Typed, DiskTyped
    <3>2. Signed(certfile[w])
      BY DEF CInv, AllSound
    <3> QED
      BY <1>1, <1>2, <1>4, <3>1, <3>2 DEF Signed
  <2>2. \A p \in Clients, w \in Workspaces : Sound(current[p][w])' \/ current'[p][w] = c
    BY <1>10, <1>16 DEF CInv, AllSound, Typed, StoresTyped, Sound, Signed
  <2>3. \A q \in Openers : Sound(cred[q])' /\ Sound(rejected[q])'
    BY <1>2, <1>9, <1>10, <1>13 DEF CInv, AllSound, Typed, ConnectionsTyped, Apart, Sound, Signed
  <2> QED
    BY <1>2, <1>9, <2>1, <2>2, <2>3 DEF AllSound, Sound, Signed
<1>18. AllSettled'
  <2>1. \A q \in Openers : q # o /\ Pending(q)' => Pending(q) /\ cred'[q] = cred[q] /\ cred[q] # None
    BY <1>13, Something DEF Apart, Pending
  <2>2. ASSUME NEW w \in Workspaces, certfile'[w] # None, NEW q \in Openers, Pending(q)'
        PROVE  cred'[q].cert # certfile'[w]
    BY <1>2, <1>8, <1>13, <2>1, <2>2 DEF CInv, AllSettled, Settled
  <2>3. ASSUME NEW p \in Clients, NEW w \in Workspaces, current'[p][w] # None,
               NEW q \in Openers, Pending(q)'
        PROVE  cred'[q].cert # current'[p][w].cert
    BY <1>8, <1>13, <1>16, <2>1, <2>3 DEF CInv, AllSettled, Settled
  <2>4. ASSUME NEW r \in Openers, rejected'[r] # None, NEW q \in Openers, Pending(q)'
        PROVE  cred'[q].cert # rejected'[r].cert
    BY <1>2, <1>8, <1>13, <2>1, <2>4 DEF CInv, AllSettled, Settled
  <2>5. ASSUME NEW r \in Openers, NEW q \in Openers, cred'[r] # None, r # q, Pending(q)'
        PROVE  cred'[r].cert # cred'[q].cert
    BY <1>8, <1>13, <2>1, <2>5 DEF CInv, AllSettled, Apart
  <2> QED
    BY <2>2, <2>3, <2>4, <2>5 DEF AllSettled, Settled
<1> QED
  BY <1>14, <1>15, <1>16, <1>17, <1>18 DEF CInv, Typed

\* An attempt that is over, with a connection or without.
LEMMA Over ==
    ASSUME CInv, NEW o \in Openers, pc[o] \in {"connect", "reconnect"}, Leave(o),
           UNCHANGED <<world, disk, current, lock, todo, unsaved>>
    PROVE  CInv'
<1>1. ~Making(o) /\ pc[o] \notin Saving
  BY DEF Making, Saving
<1> QED
  BY <1>1, Leaving

\* However an attempt ends, nothing is left of it.
LEMMA ConnectedKeeps == ASSUME CInv, NEW o \in Openers, Connected(o) PROVE CInv'
BY Over DEF Connected

\* The same for one that fails otherwise.
LEMMA ConnectFailsKeeps == ASSUME CInv, NEW o \in Openers, ConnectFails(o) PROVE CInv'
BY Over DEF ConnectFails

\* A request that fails releases the lock, and leaves no other trace.
LEMMA MintFailsKeeps == ASSUME CInv, NEW o \in Openers, MintFails(o) PROVE CInv'
<1>1. Making(o) /\ pc[o] \notin Saving
  BY DEF MintFails, Making, Saving
<1> QED
  BY <1>1, Leaving DEF MintFails

\* The first refusal is remembered, the second is raised.
LEMMA RefusedKeeps == ASSUME CInv, NEW o \in Openers, Refused(o) PROVE CInv'
<1>1. CASE pc[o] = "reconnect" /\ Leave(o)
  BY <1>1, Over DEF Refused
<1>2. CASE /\ pc[o] = "connect" /\ rejected' = [rejected EXCEPT ![o] = cred[o]]
           /\ Goto(o, "renew") /\ UNCHANGED <<cred, newkey>>
  <2>1. /\ now' = now /\ authority' = authority /\ minted' = minted /\ todo' = todo
        /\ keyfile' = keyfile /\ certfile' = certfile /\ metafile' = metafile
        /\ current' = current /\ unsaved' = unsaved /\ lock' = lock
        /\ cred' = cred /\ newkey' = newkey
    BY <1>2 DEF Refused, world, disk
  <2>2. /\ cred[o] # None /\ cred[o].cert # None /\ todo[o] = <<>> /\ ~Accepted(cred[o])
        /\ cred[o] \in Credential
    BY <1>2 DEF Refused, CInv, Ordered, InPlace, Saving, Typed, ConnectionsTyped
  <2>3. pc'[o] = "renew" /\ rejected'[o] = cred[o] /\ Apart(o)
    BY <1>2, <2>1 DEF Goto, CInv, Typed, ConnectionsTyped, Apart
  <2>4. Typed'
    <3>1. pc' \in [Openers -> Saving \cup {"idle", "ensure", "connect", "renew", "reconnect", "mint"}]
      BY <1>2 DEF Goto, CInv, Typed, ConnectionsTyped
    <3>2. rejected' \in [Openers -> Credential \cup {None}]
      BY <1>2, <2>2 DEF CInv, Typed, ConnectionsTyped
    <3>3. ConnectionsTyped'
      BY <2>1, <3>1, <3>2 DEF CInv, Typed, ConnectionsTyped
    <3>4. Making(o)' <=> Making(o)
      BY <1>2, <2>3 DEF Making, Saving
    <3>5. LocksTyped'
      BY <2>1, <2>3, <3>4, LockKept DEF CInv, Typed
    <3> QED
      BY <2>1, <3>3, <3>5 DEF CInv, Typed, WorldTyped, DiskTyped, StoresTyped
  <2>5. AllSound'
    <3>1. \A q \in Openers : Sound(cred'[q])
      BY <2>1 DEF CInv, AllSound
    <3>2. \A q \in Openers : rejected'[q] = rejected[q] \/ rejected'[q] = cred[q]
      BY <2>3 DEF Apart
    <3> QED
      BY <2>1, <3>1, <3>2, SoundKept DEF world
  <2>6. AllSettled'
    <3>1. ~Pending(o)'
      BY <2>1, <2>2, Files DEF Pending
    <3>2. \A q \in Openers \ {o} : Pending(q) => cred[q].cert # cred'[o].cert
      BY <2>1, <2>2 DEF CInv, AllSettled
    <3> QED
      BY <2>1, <2>2, <2>3, <3>1, <3>2, SettledKept
  <2>7. Ordered(o)'
    <3>1. Store(o)' = Store(o)
      BY <2>1 DEF Store
    <3>2. InPlace(o)'
      BY <2>1, <2>2, <2>3 DEF InPlace, Saving
    <3>3. InStore(o)'
      BY <2>1, <2>2, <2>3 DEF InStore, Making, Saving, Accepted
    <3>4. Superseded(o)'
      BY <1>2, <2>1, <2>2, <2>3, <3>1, Files DEF CInv, Ordered, Superseded, Making, Saving, Replaced, Usable
    <3> QED
      BY <3>2, <3>3, <3>4 DEF Ordered
  <2>8. \A q \in Openers : Ordered(q)'
    BY <2>1, <2>3, <2>7, OthersInOrder
  <2> QED
    BY <2>4, <2>5, <2>6, <2>8 DEF CInv
<1> QED
  BY <1>1, <1>2 DEF Refused

\* While files are being written there is one that is next.
LEMMA NextFile ==
    ASSUME CInv, NEW o \in Openers, pc[o] \in Saving
    PROVE  /\ todo[o] \in {ThreeFiles, TwoFiles, LastFile}
           /\ cred[o] \in Credential /\ cred[o] # None /\ cred[o].cert # None
           /\ cred[o].cert \in Certificate
           /\ Making(o)
           /\ rejected[o] # None => rejected[o].cert # None /\ cred[o].cert # rejected[o].cert
<1>1. todo[o] # <<>> /\ cred[o] # None /\ cred[o].cert # None
  BY DEF CInv, Ordered, InPlace, Saving
<1>2. todo[o] \in {ThreeFiles, TwoFiles, LastFile} /\ cred[o] \in Credential
  BY <1>1 DEF CInv, Typed, ConnectionsTyped
<1>3. Making(o)
  BY DEF Making
<1>4. rejected[o] # None => rejected[o].cert # None /\ cred[o].cert # rejected[o].cert
  BY <1>3 DEF CInv, Ordered, InPlace, InStore
<1> QED
  BY <1>1, <1>2, <1>3, <1>4, Parts

\* A file is emptied before it is written: what the cache had is gone.
LEMMA TruncateKeeps == ASSUME CInv, NEW o \in Openers, Truncate(o) PROVE CInv'
<1>1. /\ now' = now /\ authority' = authority /\ minted' = minted /\ todo' = todo
      /\ current' = current /\ unsaved' = unsaved /\ lock' = lock
      /\ cred' = cred /\ newkey' = newkey /\ rejected' = rejected /\ pc[o] = "truncate"
  BY DEF Truncate, world
<1>2. /\ pc[o] \in Saving /\ todo[o] \in {ThreeFiles, TwoFiles, LastFile}
      /\ cred[o] # None /\ cred[o].cert # None
      /\ rejected[o] # None => rejected[o].cert # None /\ cred[o].cert # rejected[o].cert
  BY <1>1, NextFile DEF Saving
<1>3. pc'[o] = "write" /\ Apart(o)
  BY <1>1 DEF Truncate, Goto, CInv, Typed, ConnectionsTyped, Apart
<1>4. /\ DiskTyped'
      /\ \A w \in Workspaces : certfile'[w] = None \/ certfile'[w] = certfile[w]
      /\ todo[o] = LastFile => certfile' = certfile
  BY <1>2, Files, Ends DEF Truncate, Put, CInv, Typed, DiskTyped
<1>5. Typed'
  <2>1. pc' \in [Openers -> Saving \cup {"idle", "ensure", "connect", "renew", "reconnect", "mint"}]
    BY DEF Truncate, Goto, CInv, Typed, ConnectionsTyped, Saving
  <2>2. ConnectionsTyped'
    BY <1>1, <2>1 DEF CInv, Typed, ConnectionsTyped
  <2>3. Making(o)' <=> Making(o)
    BY <1>1, <1>3 DEF Making, Saving
  <2>4. LocksTyped'
    BY <1>1, <1>3, <2>3, LockKept DEF CInv, Typed
  <2> QED
    BY <1>1, <1>4, <2>2, <2>4 DEF CInv, Typed, WorldTyped, StoresTyped
<1>6. AllSound'
  <2>1. \A q \in Openers : Sound(cred'[q])
    BY <1>1 DEF CInv, AllSound
  <2> QED
    BY <1>1, <1>4, <2>1, SoundKept DEF world
<1>7. AllSettled'
  <2>1. Pending(o)' => Pending(o)
    BY <1>1 DEF Pending
  <2>2. \A q \in Openers \ {o} : Pending(q) => cred[q].cert # cred'[o].cert
    BY <1>1, <1>2 DEF CInv, AllSettled
  <2> QED
    BY <1>1, <1>3, <1>4, <2>1, <2>2, SettledKept
<1>8. Ordered(o)'
  <2>1. Store(o)' = Store(o)
    BY <1>1 DEF Store
  <2>2. InPlace(o)'
    BY <1>1, <1>2, <1>3 DEF CInv, Ordered, InPlace, Saving
  <2>3. Making(o)
    BY <1>2 DEF Making
  <2>4. InStore(o)'
    BY <1>1, <1>3, <2>1, <2>3 DEF CInv, Ordered, InStore, Saving, Accepted, Usable
  <2>5. /\ certfile'[Space[o]] = None \/ certfile'[Space[o]] = certfile[Space[o]]
    BY <1>4, Ends
  <2>6. rejected[o] # None => Store(o) = rejected[o] \/ Replaced(o, rejected[o])'
    BY <1>1, <1>2, <2>3, <2>5 DEF CInv, Ordered, Superseded, Replaced, Usable
  <2>7. todo[o] = LastFile /\ Store(o) # None => Replaced(o, Store(o))'
    BY <1>1, <1>4, <2>1 DEF CInv, Ordered, Superseded, Replaced, Usable
  <2>8. Superseded(o)'
    BY <1>1, <1>3, <2>1, <2>6, <2>7 DEF Superseded
  <2> QED
    BY <2>2, <2>4, <2>8 DEF Ordered
<1>9. ASSUME NEW q \in Openers \ {o}
      PROVE  \/ certfile'[Space[q]] = certfile[Space[q]]
             \/ /\ pc[q] = "connect" => certfile'[Space[q]] # cred[q].cert
                /\ rejected[q] # None => certfile'[Space[q]] # rejected[q].cert
                /\ Store(q) # None => certfile'[Space[q]] # Store(q).cert
  <2>1. certfile'[Space[q]] = None \/ certfile'[Space[q]] = certfile[Space[q]]
    BY <1>4, Ends
  <2>2. /\ pc[q] = "connect" => cred[q].cert # None
        /\ rejected[q] # None => rejected[q].cert # None
    BY DEF CInv, Ordered, InPlace
  <2> QED
    BY <2>1, <2>2, InMemory
<1>10. \A q \in Openers : Ordered(q)'
  BY <1>1, <1>3, <1>8, <1>9, OthersInOrder
<1> QED
  BY <1>5, <1>6, <1>7, <1>10 DEF CInv

\* What is kept when the credential that was made is adopted.
LEMMA Adopted ==
    ASSUME CInv, NEW o \in Openers, pc[o] \in Saving, Minted(o, cred[o]), todo'[o] = <<>>,
           todo' \in [Openers -> {<<>>, ThreeFiles, TwoFiles, LastFile}],
           \A q \in Openers \ {o} : todo'[q] = todo[q],
           UNCHANGED <<world, certfile, cred, rejected>>, DiskTyped', (unsaved \in BOOLEAN)',
           unsaved => unsaved', Store(o) # None => unsaved' \/ Replaced(o, Store(o))
    PROVE  CInv'
<1>1. /\ now' = now /\ authority' = authority /\ minted' = minted
      /\ certfile' = certfile /\ cred' = cred /\ rejected' = rejected
  BY DEF world
<1>2. PICK c : c = cred[o]
  OBVIOUS
<1>3. /\ Making(o) /\ c \in Credential /\ c # None /\ c.cert # None
      /\ rejected[o] # None => c.cert # rejected[o].cert
  BY <1>2, NextFile
<1>4. cred'[o] = c /\ Minted(o, c)
  BY <1>1, <1>2
<1>5. Apart(o)
  <2>1. \A q \in Openers \ {o} : pc'[q] = pc[q]
    BY DEF Minted, Goto, CInv, Typed, ConnectionsTyped
  <2> QED
    BY <1>1, <2>1 DEF Apart
<1>6. ConnectionsTyped'
  <2>1. pc' \in [Openers -> Saving \cup {"idle", "ensure", "connect", "renew", "reconnect", "mint"}]
    BY DEF Minted, Attempt, Goto, CInv, Typed, ConnectionsTyped
  <2>2. newkey' \in [Openers -> BOOLEAN]
    BY DEF Minted, CInv, Typed, ConnectionsTyped
  <2> QED
    BY <1>1, <2>1, <2>2 DEF CInv, Typed, ConnectionsTyped
<1>7. Sound(c)'
  BY <1>1, <1>2 DEF CInv, AllSound, Sound, Signed
<1>8. /\ StoresTyped' /\ LocksTyped'
      /\ \A p \in Clients, w \in Workspaces :
            current'[p][w] = current[p][w] \/ current'[p][w] = cred'[o]
      /\ \A q \in Openers : Ordered(q)'
  BY <1>1, <1>3, <1>4, <1>5, <1>6, <1>7, Holding
<1>9. AllSound'
  <2>1. \A q \in Openers : Sound(cred'[q])
    BY <1>1 DEF CInv, AllSound
  <2> QED
    BY <1>1, <1>8, <2>1, SoundKept DEF world
<1>10. AllSettled'
  <2>1. ~Pending(o)'
    BY Files DEF Pending
  <2>2. \A q \in Openers \ {o} : Pending(q) => cred[q].cert # cred'[o].cert
    BY <1>1, <1>2, <1>3 DEF CInv, AllSettled
  <2> QED
    BY <1>1, <1>5, <1>8, <2>1, <2>2, SettledKept
<1> QED
  BY <1>1, <1>6, <1>8, <1>9, <1>10 DEF CInv, Typed, WorldTyped

\* What cannot be saved is used from memory.
LEMMA SaveFailsKeeps == ASSUME CInv, NEW o \in Openers, SaveFails(o) PROVE CInv'
<1>1. pc[o] \in Saving /\ Minted(o, cred[o]) /\ unsaved' = TRUE
  BY DEF SaveFails
<1>2. UNCHANGED <<world, certfile, cred, rejected>> /\ UNCHANGED disk
  BY DEF SaveFails, disk
<1>3. /\ todo'[o] = <<>> /\ todo' \in [Openers -> {<<>>, ThreeFiles, TwoFiles, LastFile}]
      /\ \A q \in Openers \ {o} : todo'[q] = todo[q]
  BY DEF SaveFails, CInv, Typed, ConnectionsTyped
<1>4. DiskTyped'
  BY <1>2 DEF CInv, Typed, DiskTyped, disk
<1> QED
  BY <1>1, <1>2, <1>3, <1>4, Adopted

\* The certificate that replaces another one is not that one.
LEMMA WriteKeeps == ASSUME CInv, NEW o \in Openers, Write(o) PROVE CInv'
<1>1. /\ now' = now /\ authority' = authority /\ minted' = minted
      /\ cred' = cred /\ rejected' = rejected /\ unsaved' = unsaved /\ pc[o] = "write"
  BY DEF Write, world
<1>2. /\ pc[o] \in Saving /\ todo[o] \in {ThreeFiles, TwoFiles, LastFile}
      /\ cred[o] # None /\ cred[o].cert # None /\ cred[o].cert \in Certificate
      /\ cred[o] \in Credential /\ Making(o)
      /\ rejected[o] # None => rejected[o].cert # None /\ cred[o].cert # rejected[o].cert
  BY <1>1, NextFile DEF Saving
<1>3. /\ todo'[o] = Tail(todo[o])
      /\ \A q \in Openers \ {o} : todo'[q] = todo[q]
  BY DEF Write, CInv, Typed, ConnectionsTyped
<1>4. todo' \in [Openers -> {<<>>, ThreeFiles, TwoFiles, LastFile}]
  <2>1. Tail(todo[o]) \in {<<>>, ThreeFiles, TwoFiles, LastFile}
    BY <1>2, Files
  <2> QED
    BY <2>1 DEF Write, CInv, Typed, ConnectionsTyped
<1>5. DiskTyped'
  <2>1. cred[o].key \in Keys /\ cred[o].expires \in 0 .. MaxChanges + 1
    BY <1>2, Parts
  <2> QED
    BY <1>2, <2>1 DEF Write, Put, CInv, Typed, DiskTyped
<1>6. CASE todo[o] = LastFile
  <2>1. certfile' = certfile
    BY <1>6, Files DEF Write, Put
  <2>2. todo'[o] = <<>> /\ Minted(o, cred[o])
    BY <1>3, <1>6, Files DEF Write
  <2>3. Store(o) # None => unsaved' \/ Replaced(o, Store(o))
    BY <1>6 DEF CInv, Ordered, Superseded
  <2>4. (unsaved \in BOOLEAN)'
    BY <1>1 DEF CInv, Typed
  <2>5. UNCHANGED <<world, certfile, cred, rejected>>
    BY <1>1, <2>1 DEF world
  <2> QED
    BY <1>1, <1>2, <1>3, <1>4, <1>5, <2>2, <2>3, <2>4, <2>5, Adopted
<1>7. CASE todo[o] \in {ThreeFiles, TwoFiles}
  <2>1. Pending(o)
    BY <1>7 DEF Pending
  <2>2. /\ todo'[o] \in {TwoFiles, LastFile} /\ todo'[o] # <<>>
        /\ Goto(o, "truncate") /\ current' = current /\ lock' = lock /\ newkey' = newkey
    BY <1>3, <1>7, Files DEF Write
  <2>3. \/ certfile' = certfile /\ todo[o] = ThreeFiles /\ todo'[o] = TwoFiles
        \/ /\ certfile' = [certfile EXCEPT ![Space[o]] = cred[o].cert]
           /\ todo[o] = TwoFiles /\ todo'[o] = LastFile
    BY <1>3, <1>7, Files DEF Write, Put
  <2>4. pc'[o] = "truncate" /\ Apart(o)
    BY <1>1, <1>3, <2>2 DEF Goto, CInv, Typed, ConnectionsTyped, Apart
  <2>5. Typed'
    <3>1. pc' \in [Openers -> Saving \cup {"idle", "ensure", "connect", "renew", "reconnect", "mint"}]
      BY <2>2 DEF Goto, CInv, Typed, ConnectionsTyped, Saving
    <3>2. ConnectionsTyped'
      BY <1>1, <1>4, <2>2, <3>1 DEF CInv, Typed, ConnectionsTyped
    <3>3. Making(o)'
      BY <2>4 DEF Making, Saving
    <3>4. LocksTyped'
      BY <1>2, <2>2, <2>4, <3>3, LockKept DEF CInv, Typed
    <3> QED
      BY <1>1, <1>5, <2>2, <3>2, <3>4 DEF CInv, Typed, WorldTyped, StoresTyped
  <2>6. \A w \in Workspaces : \/ certfile'[w] = certfile[w]
                              \/ w = Space[o] /\ certfile'[w] = cred[o].cert
    BY <2>3 DEF CInv, Typed, DiskTyped
  <2>7. AllSound'
    <3>1. \A q \in Openers : Sound(cred'[q])
      BY <1>1 DEF CInv, AllSound
    <3> QED
      BY <1>1, <1>2, <2>2, <2>6, <3>1, SoundKept DEF world
  <2>8. AllSettled'
    <3>1. Pending(o)' => certfile' = certfile
      BY <2>3, Files DEF Pending
    <3>2. \A q \in Openers \ {o} : Pending(q) => cred[q].cert # cred'[o].cert
      BY <1>1, <1>2 DEF CInv, AllSettled
    <3> QED
      BY <1>1, <1>2, <2>1, <2>2, <2>4, <2>6, <3>1, <3>2, SettledKept
  <2>9. Ordered(o)'
    <3>1. Store(o)' = Store(o)
      BY <2>2 DEF Store
    <3>2. InPlace(o)'
      BY <1>1, <1>2, <2>2, <2>4 DEF CInv, Ordered, InPlace, Saving
    <3>3. InStore(o)'
      BY <1>1, <1>2, <2>4, <3>1 DEF CInv, Ordered, InStore, Saving, Accepted, Usable
    <3>4. certfile'[Space[o]] = certfile[Space[o]] \/ certfile'[Space[o]] = cred[o].cert
      BY <2>6, Ends
    <3>5. rejected[o] # None => Store(o) = rejected[o] \/ Replaced(o, rejected[o])'
      BY <1>1, <1>2, <3>4 DEF CInv, Ordered, Superseded, Replaced, Usable
    <3>6. todo'[o] = LastFile /\ Store(o) # None => Replaced(o, Store(o))'
      <4> SUFFICES ASSUME todo'[o] = LastFile, Store(o) # None
                   PROVE  certfile'[Space[o]] # Store(o)'.cert
        BY DEF Replaced
      <4>1. certfile' = [certfile EXCEPT ![Space[o]] = cred[o].cert]
        BY <2>3, Files
      <4>2. certfile'[Space[o]] = cred[o].cert
        BY <4>1, Ends DEF CInv, Typed, DiskTyped
      <4>3. cred[o].cert # Store(o).cert
        BY <2>1, InMemory DEF Settled
      <4> QED
        BY <3>1, <4>2, <4>3
    <3>7. Superseded(o)'
      BY <1>1, <2>4, <3>1, <3>5, <3>6 DEF Superseded
    <3> QED
      BY <3>2, <3>3, <3>7 DEF Ordered
  <2>10. ASSUME NEW q \in Openers \ {o}
         PROVE  \/ certfile'[Space[q]] = certfile[Space[q]]
                \/ /\ pc[q] = "connect" => certfile'[Space[q]] # cred[q].cert
                   /\ rejected[q] # None => certfile'[Space[q]] # rejected[q].cert
                   /\ Store(q) # None => certfile'[Space[q]] # Store(q).cert
    <3>1. certfile'[Space[q]] = certfile[Space[q]] \/ certfile'[Space[q]] = cred[o].cert
      BY <2>6, Ends
    <3>2. /\ pc[q] = "connect" => cred[q].cert # cred[o].cert
          /\ rejected[q] # None => rejected[q].cert # cred[o].cert
      BY <2>1 DEF CInv, AllSettled, Settled, Ordered, InPlace
    <3>3. Store(q) # None => Store(q).cert # cred[o].cert
      BY <2>1, InMemory DEF Settled
    <3> QED
      BY <3>1, <3>2, <3>3
  <2>11. \A q \in Openers : Ordered(q)'
    BY <1>1, <2>2, <2>4, <2>9, <2>10, OthersInOrder
  <2> QED
    BY <2>5, <2>7, <2>8, <2>11 DEF CInv
<1> QED
  BY <1>2, <1>6, <1>7

\* A client that is killed leaves the others, and the cache, as they are.
LEMMA CrashKeeps == ASSUME CInv, NEW p \in Clients, Crash(p) PROVE CInv'
<1>1. /\ now' = now /\ authority' = authority /\ minted' = minted
      /\ keyfile' = keyfile /\ certfile' = certfile /\ metafile' = metafile
      /\ unsaved => unsaved'
  <2>1. unsaved \in BOOLEAN
    BY DEF CInv, Typed
  <2> QED
    BY <2>1 DEF Crash, world, disk
<1>2. \A o \in Openers :
         IF Home[o] = p
         THEN /\ pc'[o] = "idle" /\ todo'[o] = <<>> /\ cred'[o] = None /\ rejected'[o] = None
         ELSE /\ pc'[o] = pc[o] /\ todo'[o] = todo[o] /\ cred'[o] = cred[o]
              /\ rejected'[o] = rejected[o]
  BY DEF Crash
<1>3. ConnectionsTyped'
  <2>1. pc' \in [Openers -> Saving \cup {"idle", "ensure", "connect", "renew", "reconnect", "mint"}]
    BY DEF Crash, CInv, Typed, ConnectionsTyped
  <2>2. cred' \in [Openers -> Credential \cup {None}] /\ rejected' \in [Openers -> Credential \cup {None}]
    BY DEF Crash, CInv, Typed, ConnectionsTyped
  <2>3. newkey' \in [Openers -> BOOLEAN]
    BY DEF Crash, CInv, Typed, ConnectionsTyped
  <2>4. todo' \in [Openers -> {<<>>, ThreeFiles, TwoFiles, LastFile}]
    BY DEF Crash, CInv, Typed, ConnectionsTyped
  <2> QED
    BY <2>1, <2>2, <2>3, <2>4 DEF ConnectionsTyped
<1>4. \A r \in Clients, w \in Workspaces :
         current'[r][w] = IF r = p THEN None ELSE current[r][w]
  BY DEF Crash, CInv, Typed, StoresTyped
<1>5. StoresTyped'
  <2>1. current' \in [Clients -> [Workspaces -> Credential \cup {None}]]
    BY DEF Crash, CInv, Typed, StoresTyped
  <2> QED
    BY <1>4, <2>1 DEF CInv, Typed, StoresTyped
<1>6. LocksTyped'
  <2>1. lock' \in [Clients -> Openers \cup {None}]
    BY DEF Crash, CInv, Typed, LocksTyped
  <2>2. ASSUME NEW o \in Openers
        PROVE  lock'[Home[o]] = o <=> Making(o)'
    <3>1. lock'[Home[o]] = IF Home[o] = p THEN None ELSE lock[Home[o]]
      BY Ends DEF Crash, CInv, Typed, LocksTyped
    <3> QED
      BY <1>2, <3>1, Nothing DEF CInv, Typed, LocksTyped, Making, Saving
  <2> QED
    BY <2>1, <2>2 DEF LocksTyped
<1>7. Typed'
  <2>1. WorldTyped' /\ DiskTyped'
    BY <1>1 DEF CInv, Typed, WorldTyped, DiskTyped
  <2>2. (unsaved \in BOOLEAN)'
    <3>1. unsaved \in BOOLEAN
      BY DEF CInv, Typed
    <3> QED
      BY <3>1 DEF Crash
  <2> QED
    BY <1>3, <1>5, <1>6, <2>1, <2>2 DEF Typed
<1>8. AllSound'
  <2>1. \A o \in Openers : Sound(cred'[o])
    BY <1>2 DEF CInv, AllSound, Sound
  <2> QED
    BY <1>1, <1>2, <1>4, <2>1, SoundKept DEF world
<1>9. AllSettled'
  <2>1. \A q \in Openers : Pending(q)' => Pending(q) /\ cred'[q] = cred[q]
    BY <1>2, Files DEF Pending
  <2>2. \A r \in Clients, w \in Workspaces :
           current'[r][w] # None => current'[r][w] = current[r][w]
    BY <1>4
  <2>3. \A o \in Openers : /\ cred'[o] # None => cred'[o] = cred[o]
                           /\ rejected'[o] # None => rejected'[o] = rejected[o]
    BY <1>2
  <2> QED
    BY <1>1, <2>1, <2>2, <2>3 DEF CInv, AllSettled, Settled
<1>10. ASSUME NEW q \in Openers
       PROVE  Ordered(q)'
  <2>1. CASE Home[q] = p
    <3>1. InPlace(q)'
      BY <1>2, <2>1 DEF InPlace, Saving
    <3>2. InStore(q)' /\ Superseded(q)'
      BY <1>2, <2>1, Files DEF InStore, Superseded, Making, Saving
    <3> QED
      BY <3>1, <3>2 DEF Ordered
  <2>2. CASE Home[q] # p
    <3>1. Store(q)' = Store(q)
      BY <1>4, <2>2, Ends DEF Store
    <3> QED
      BY <1>1, <1>2, <2>2, <3>1, Undisturbed DEF CInv
  <2> QED
    BY <2>1, <2>2
<1> QED
  BY <1>7, <1>8, <1>9, <1>10 DEF CInv

\* With the period, or the authority, goes every certificate there is.
LEMMA ChangeKeeps == ASSUME CInv, NextPeriod \/ Rotate PROVE CInv'
<1>1. /\ minted' = minted
      /\ keyfile' = keyfile /\ certfile' = certfile /\ metafile' = metafile
      /\ current' = current /\ lock' = lock /\ pc' = pc /\ cred' = cred /\ newkey' = newkey
      /\ rejected' = rejected /\ todo' = todo /\ unsaved' = unsaved
  BY DEF NextPeriod, Rotate, disk
<1>2. now \in Nat /\ authority \in Nat /\ minted \in Nat /\ MaxChanges \in Nat
  BY BoundsAssumption DEF CInv, Typed, WorldTyped
<1>3. /\ now' \in 0 .. MaxChanges /\ authority' \in 0 .. MaxChanges
      /\ \/ now' = now + 1 /\ authority' = authority
         \/ now' = now /\ authority' = authority + 1
  BY <1>2 DEF NextPeriod, Rotate
<1>4. Typed'
  <2>1. WorldTyped' /\ DiskTyped' /\ StoresTyped' /\ ConnectionsTyped'
    BY <1>1, <1>3 DEF CInv, Typed, WorldTyped, DiskTyped, StoresTyped, ConnectionsTyped
  <2>2. LocksTyped'
    BY <1>1 DEF CInv, Typed, LocksTyped, Making
  <2> QED
    BY <1>1, <2>1, <2>2 DEF CInv, Typed
<1>5. \A x \in Certificate : Signed(x) => /\ Signed(x)'
                                          /\ x.period # now' \/ x.authority # authority'
  <2> SUFFICES ASSUME NEW x \in Certificate, Signed(x)
               PROVE  Signed(x)' /\ (x.period # now' \/ x.authority # authority')
    OBVIOUS
  <2>1. x.serial \in Nat /\ x.period \in Nat /\ x.authority \in Nat
    BY <1>2, Parts, BoundsAssumption
  <2> QED
    BY <1>1, <1>2, <1>3, <2>1 DEF Signed
<1>6. \A c \in Credential : Sound(c) => Sound(c)' /\ ~Accepted(c)'
  <2> SUFFICES ASSUME NEW c \in Credential, Sound(c)
               PROVE  Sound(c)' /\ ~Accepted(c)'
    OBVIOUS
  <2>1. c.cert # None => c.cert \in Certificate /\ c # None
    BY Parts, Nothing
  <2> QED
    BY <1>5, <2>1 DEF Sound, Accepted
<1>7. \A c : Usable(c)' /\ c \in Credential => Usable(c)
  <2> SUFFICES ASSUME NEW c, Usable(c)', c \in Credential
               PROVE  Usable(c)
    OBVIOUS
  <2>1. c.expires \in Nat
    BY <1>2, Parts
  <2> QED
    BY <1>2, <1>3, <2>1 DEF Usable
<1>8. AllSound'
  <2>1. \A w \in Workspaces : certfile[w] # None => certfile[w] \in Certificate
    BY DEF CInv, Typed, DiskTyped
  <2>2. \A r \in Clients, w \in Workspaces :
           current[r][w] = None \/ current[r][w] \in Credential
    BY DEF CInv, Typed, StoresTyped
  <2>3. \A o \in Openers : /\ cred[o] = None \/ cred[o] \in Credential
                           /\ rejected[o] = None \/ rejected[o] \in Credential
    BY DEF CInv, Typed, ConnectionsTyped
  <2>4. \A w \in Workspaces : certfile'[w] # None => Signed(certfile[w])'
    BY <1>1, <1>5, <2>1 DEF CInv, AllSound, Signed
  <2>5. \A r \in Clients, w \in Workspaces : Sound(current[r][w])'
    BY <1>1, <1>6, <2>2 DEF CInv, AllSound, Sound, Signed
  <2>6. \A o \in Openers : Sound(cred[o])' /\ Sound(rejected[o])'
    BY <1>1, <1>6, <2>3 DEF CInv, AllSound, Sound, Signed
  <2> QED
    BY <1>1, <2>4, <2>5, <2>6 DEF AllSound, Signed
<1>9. AllSettled'
  BY <1>1 DEF CInv, AllSettled, Settled, Pending
<1>10. ASSUME NEW q \in Openers
       PROVE  Ordered(q)'
  <2>1. Ordered(q) /\ Store(q)' = Store(q)
    BY <1>1 DEF CInv, Store
  <2>2. /\ cred[q] = None \/ (cred[q] \in Credential /\ Sound(cred[q]))
        /\ rejected[q] = None \/ (rejected[q] \in Credential /\ Sound(rejected[q]))
    BY DEF CInv, Typed, ConnectionsTyped, AllSound
  <2>3. Store(q) = None \/ (Store(q) \in Credential /\ Sound(Store(q)))
    BY InMemory
  <2>4. InPlace(q)'
    BY <1>1, <2>1 DEF Ordered, InPlace
  <2>5. pc[q] \in {"connect", "renew", "reconnect"} => cred[q] # None
    BY <2>1 DEF Ordered, InPlace
  <2>6. pc[q] \in {"connect", "renew", "reconnect"} => ~Accepted(cred[q])'
    BY <1>1, <1>6, <2>2, <2>5 DEF Accepted
  <2>7. Store(q) # None => ~Accepted(Store(q))'
    BY <1>1, <1>6, <2>1, <2>3 DEF Accepted
  <2>8. ~Usable(Store(q)) => ~Usable(Store(q))'
    BY <1>7, <2>1, <2>3 DEF Usable
  <2>9. InStore(q)'
    BY <1>1, <2>1, <2>6, <2>7, <2>8 DEF Ordered, InStore, Making
  <2>10. \A c : (c = None \/ c \in Credential) /\ Replaced(q, c) => Replaced(q, c)'
    BY <1>1, <1>7 DEF Replaced, Usable
  <2>11. /\ Replaced(q, cred[q]) => Replaced(q, cred[q])'
         /\ Replaced(q, rejected[q]) => Replaced(q, rejected[q])'
         /\ Replaced(q, Store(q)) => Replaced(q, Store(q))'
    BY <1>1, <2>1, <2>2, <2>3, <2>10 DEF Replaced, Usable
  <2>12. Superseded(q)'
    BY <1>1, <2>1, <2>11 DEF Ordered, Superseded, Making
  <2> QED
    BY <2>4, <2>9, <2>12 DEF Ordered
<1> QED
  BY <1>4, <1>8, <1>9, <1>10 DEF CInv

-----------------------------------------------------------------------------
(* The theorems.                                                           *)

\* Whatever is done, crashes and rotations included, credentials stay in order.
THEOREM CredentialInvariance == Spec => []CInv
<1>1. Init => CInv
  <2> SUFFICES ASSUME Init
               PROVE  CInv
    OBVIOUS
  <2>1. WorldTyped /\ DiskTyped /\ (unsaved \in BOOLEAN)
    <3>1. 0 \in 0 .. MaxChanges /\ 0 \in 0 .. MaxMints
      BY BoundsAssumption
    <3>2. WorldTyped
      BY <3>1 DEF Init, WorldTyped
    <3>3. DiskTyped /\ (unsaved \in BOOLEAN)
      BY DEF Init, DiskTyped
    <3> QED
      BY <3>2, <3>3
  <2>2. StoresTyped /\ \A p \in Clients, w \in Workspaces : current[p][w] = None
    BY DEF Init, StoresTyped
  <2>3. \A o \in Openers : /\ pc[o] = "idle" /\ cred[o] = None /\ rejected[o] = None
                           /\ todo[o] = <<>> /\ lock[Home[o]] = None
    BY Ends DEF Init
  <2>4. ConnectionsTyped /\ LocksTyped
    BY <2>3, Nothing DEF Init, ConnectionsTyped, LocksTyped, Making, Saving
  <2>5. AllSound
    BY <2>2, <2>3 DEF Init, AllSound, Sound
  <2>6. AllSettled
    BY <2>3, Files DEF AllSettled, Settled, Pending
  <2>7. \A o \in Openers : Ordered(o)
    BY <2>3, Files DEF Ordered, InPlace, InStore, Superseded, Making, Saving
  <2> QED
    BY <2>1, <2>2, <2>4, <2>5, <2>6, <2>7 DEF CInv, Typed
<1>2. CInv /\ [Next]_vars => CInv'
  <2> SUFFICES ASSUME CInv, [Next]_vars
               PROVE  CInv'
    OBVIOUS
  <2>1. CASE \E o \in Openers :
                \/ Ensure(o) \/ EnsureLocked(o) \/ RenewLocked(o)
                \/ Certified(o) \/ MintFails(o)
                \/ Truncate(o) \/ Write(o) \/ SaveFails(o)
                \/ Connected(o) \/ Refused(o) \/ ConnectFails(o)
    BY <2>1, EnsureKeeps, EnsureLockedKeeps, RenewLockedKeeps, CertifiedKeeps, MintFailsKeeps,
       TruncateKeeps, WriteKeeps, SaveFailsKeeps, ConnectedKeeps, RefusedKeeps, ConnectFailsKeeps
  <2>2. CASE \E p \in Clients : Crash(p)
    BY <2>2, CrashKeeps
  <2>3. CASE NextPeriod \/ Rotate
    BY <2>3, ChangeKeeps
  <2>4. CASE UNCHANGED vars
    <3>1. /\ now' = now /\ authority' = authority /\ minted' = minted
          /\ keyfile' = keyfile /\ certfile' = certfile /\ metafile' = metafile
          /\ current' = current /\ lock' = lock /\ pc' = pc /\ cred' = cred /\ newkey' = newkey
          /\ rejected' = rejected /\ todo' = todo /\ unsaved' = unsaved
      BY <2>4 DEF vars, world, disk
    <3>2. Typed'
      BY <3>1 DEF CInv, Typed, WorldTyped, DiskTyped, StoresTyped, ConnectionsTyped, LocksTyped, Making
    <3>3. AllSound' /\ AllSettled'
      BY <3>1 DEF CInv, AllSound, Sound, Signed, AllSettled, Settled, Pending
    <3>4. \A q \in Openers : Ordered(q)'
      BY <3>1, Undisturbed DEF CInv, Store
    <3> QED
      BY <3>2, <3>3, <3>4 DEF CInv
  <2> QED
    BY <2>1, <2>2, <2>3, <2>4 DEF Next
<1> QED
  BY <1>1, <1>2, PTL DEF Spec

\* Whatever the number of clients and workspaces, the state has its type.
THEOREM CredentialsTyped == Spec => []TypeOK
<1>1. CInv => TypeOK
  <2> SUFFICES ASSUME CInv
               PROVE  TypeOK
    OBVIOUS
  <2>1. \A o \in Openers : todo[o] # <<>> <=> pc[o] \in Saving
    BY DEF CInv, Ordered, InPlace
  <2>2. \A o \in Openers : lock[Home[o]] = o <=> pc[o] \in Saving \cup {"mint"}
    BY DEF CInv, Typed, LocksTyped, Making
  <2> QED
    BY <2>1, <2>2 DEF CInv, Typed, WorldTyped, DiskTyped, StoresTyped, ConnectionsTyped, LocksTyped, TypeOK
<1> QED
  BY <1>1, CredentialInvariance, PTL

\* However many connections the sandboxes of one Client open, those to one
\* workspace that can succeed are made with one credential: ensure() and renew()
\* answer all of them with the one that was minted last.
THEOREM RenewalShared == Spec => []RefusalsShareRenewal
<1>1. CInv => RefusalsShareRenewal
  BY DEF CInv, Ordered, InStore, Store, RefusalsShareRenewal
<1> QED
  BY <1>1, CredentialInvariance, PTL

\* However many clients share the cache, a credential that was refused is
\* not used again, and is no longer there for another client to find.
THEOREM RefusedGone == Spec => []RefusedIsReplaced
<1>1. ASSUME CInv, NEW o \in Openers, pc[o] = "reconnect"
      PROVE  /\ cred[o] # rejected[o]
             /\ Usable(rejected[o]) => unsaved \/ Load(Space[o]) # rejected[o]
  <2>1. /\ cred[o] # rejected[o] /\ rejected[o].cert # None
        /\ unsaved \/ ~Usable(rejected[o]) \/ certfile[Space[o]] # rejected[o].cert
    BY <1>1 DEF CInv, Ordered, InPlace, InStore, Superseded, Replaced
  <2>2. ASSUME Load(Space[o]) = rejected[o], Usable(rejected[o])
        PROVE  certfile[Space[o]] = rejected[o].cert
    BY <1>1, <2>2, Ends, Loaded DEF CInv
  <2> QED
    BY <2>1, <2>2
<1>2. CInv => RefusedIsReplaced
  BY <1>1 DEF RefusedIsReplaced
<1> QED
  BY <1>2, CredentialInvariance, PTL
=============================================================================
