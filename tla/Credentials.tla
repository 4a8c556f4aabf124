---------------------------- MODULE Credentials ----------------------------
(***************************************************************************)
(* CredentialStore (asynchronous/credentials.py) and its use by            *)
(* Sandbox._open_connection: one SSH key for the machine, one certificate  *)
(* over it for each workspace, shared in memory by the sandboxes of one    *)
(* Client and on disk by all clients of the machine, whether they belong   *)
(* to several processes or, as when Sandbox.create() is given no client    *)
(* and opens one of its own, to the same.                                  *)
(*                                                                         *)
(* A certificate is usable for the period it was minted in. The authority  *)
(* that signs may rotate, which nobody is told of.                         *)
(***************************************************************************)
EXTENDS Naturals, Sequences

CONSTANTS Openers,       \* connections that sandboxes open, again and again
          Home,          \* the Client of its sandbox
          Space,         \* the workspace of the sandbox it leads to
          Keys,          \* keys that may be generated
          MaxMints,      \* bound: certificates that are signed
          MaxChanges,    \* bound: new periods and rotations of the authority
          None

Clients == {Home[o] : o \in Openers}
Workspaces == {Space[o] : o \in Openers}

ASSUME BoundsAssumption ==
    MaxMints \in Nat /\ MaxChanges \in Nat

Certificate == [serial : 1 .. MaxMints, key : Keys, period : 0 .. MaxChanges,
                authority : 0 .. MaxChanges]
Credential == [key : Keys, cert : Certificate \cup {None}, expires : 0 .. MaxChanges + 1]

ASSUME NoneAssumption ==
    None \notin Keys \cup Openers \cup Certificate \cup Credential \cup 0 .. MaxChanges + 1

VARIABLES now,       \* the period
          authority, \* the authority sandboxes trust
          minted,    \* certificates signed so far
          keyfile,   \* ssh_key: a key, None when missing or damaged
          certfile,  \* per workspace: the certificate
          metafile,  \* per workspace: its expires_at
          current,   \* per client and workspace: CredentialStore._current
          lock,      \* per client: the lock of its stores
          pc,        \* where a connection is
          cred,      \* the credential it uses or is making
          newkey,    \* _mint: the key it is making a certificate for is new
          rejected,  \* the credential whose refusal a renewal answers
          todo,      \* _save: files still to be written
          unsaved    \* history: a save was cut short

disk == <<keyfile, certfile, metafile>>
world == <<now, authority, minted>>
vars == <<world, disk, current, lock, pc, cred, newkey, rejected, todo, unsaved>>

-----------------------------------------------------------------------------
\* SSHCredential.is_usable: expires_at is the end of the period, 0 for none.
Usable(c) == c # None /\ c.expires > now

\* _load: no key is no credential, no certificate is one that has expired.
Load(w) ==
    IF keyfile = None THEN None
    ELSE IF certfile[w] = None \/ metafile[w] = None
         THEN [key |-> keyfile, cert |-> None, expires |-> 0]
         ELSE [key |-> keyfile, cert |-> certfile[w], expires |-> metafile[w]]

\* What a sandbox lets in: the certificate is over the key that is presented,
\* in its period, and signed by the authority of today.
Accepted(c) ==
    /\ c.cert # None
    /\ c.cert.key = c.key
    /\ c.cert.period = now
    /\ c.cert.authority = authority

Saving == {"truncate", "write"}

\* One thread per client: nothing else of it runs while _save does. Nothing else
\* of its process would either; clients of one process are left the freedom of
\* clients of several.
Scheduled(o) == \A q \in Openers : Home[q] = Home[o] /\ pc[q] \in Saving => q = o

Store(o) == current[Home[o]][Space[o]]
Adopt(o, c) == current' = [current EXCEPT ![Home[o]][Space[o]] = c]
Goto(o, place) == pc' = [pc EXCEPT ![o] = place]

Init ==
    /\ now = 0 /\ authority = 0 /\ minted = 0
    /\ keyfile = None
    /\ certfile = [w \in Workspaces |-> None]
    /\ metafile = [w \in Workspaces |-> None]
    /\ current = [p \in Clients |-> [w \in Workspaces |-> None]]
    /\ lock = [p \in Clients |-> None]
    /\ pc = [o \in Openers |-> "idle"]
    /\ cred = [o \in Openers |-> None]
    /\ newkey = [o \in Openers |-> FALSE]
    /\ rejected = [o \in Openers |-> None]
    /\ todo = [o \in Openers |-> <<>>]
    /\ unsaved = FALSE

-----------------------------------------------------------------------------
(* ensure(), renew() and what _mint does before its request.               *)

Present(o, c, attempt) ==
    /\ cred' = [cred EXCEPT ![o] = c]
    /\ Goto(o, attempt)

\* _open_connection is over, with a connection or an exception.
Leave(o) ==
    /\ Goto(o, "idle")
    /\ cred' = [cred EXCEPT ![o] = None]
    /\ newkey' = [newkey EXCEPT ![o] = FALSE]
    /\ rejected' = [rejected EXCEPT ![o] = None]

\* _open_connection asks for a credential; without the lock if there is one.
Ensure(o) ==
    /\ pc[o] = "idle" /\ Scheduled(o)
    /\ IF Usable(Store(o)) THEN Present(o, Store(o), "connect")
       ELSE Goto(o, "ensure") /\ UNCHANGED cred
    /\ UNCHANGED <<world, disk, current, lock, newkey, rejected, todo, unsaved>>

\* The key that is cached is kept, whatever became of its certificate.
RequestCertificate(o) ==
    /\ lock' = [lock EXCEPT ![Home[o]] = o]
    /\ \E k \in (IF keyfile = None THEN Keys ELSE {keyfile}) :
          cred' = [cred EXCEPT ![o] = [key |-> k, cert |-> None, expires |-> 0]]
    /\ newkey' = [newkey EXCEPT ![o] = keyfile = None]
    /\ Goto(o, "mint")

EnsureLocked(o) ==
    /\ pc[o] = "ensure" /\ Scheduled(o)
    /\ lock[Home[o]] = None
    /\ \/ /\ Usable(Store(o))
          /\ Present(o, Store(o), "connect")
          /\ UNCHANGED <<current, lock, newkey>>
       \/ /\ ~Usable(Store(o)) /\ Usable(Load(Space[o]))
          /\ Adopt(o, Load(Space[o]))
          /\ Present(o, Load(Space[o]), "connect")
          /\ UNCHANGED <<lock, newkey>>
       \/ /\ ~Usable(Store(o)) /\ ~Usable(Load(Space[o]))
          /\ RequestCertificate(o)
          /\ UNCHANGED current
    /\ UNCHANGED <<world, disk, rejected, todo, unsaved>>

\* Mutant: whoever was refused asks for a certificate of its own.
RenewAlone(o) ==
    /\ pc[o] = "renew" /\ Scheduled(o)
    /\ lock[Home[o]] = None
    /\ RequestCertificate(o)
    /\ UNCHANGED <<world, disk, current, rejected, todo, unsaved>>

\* Somebody of this client may have replaced the refused credential already.
RenewLocked(o) ==
    /\ pc[o] = "renew" /\ Scheduled(o)
    /\ lock[Home[o]] = None
    /\ \/ /\ Store(o) # cred[o] /\ Usable(Store(o))
          /\ Present(o, Store(o), "reconnect")
          /\ UNCHANGED <<lock, newkey>>
       \/ /\ Store(o) = cred[o] \/ ~Usable(Store(o))
          /\ RequestCertificate(o)
    /\ UNCHANGED <<world, disk, current, rejected, todo, unsaved>>

-----------------------------------------------------------------------------
(* The rest of _mint, and _save.                                           *)

\* The first connection, or the second after a refusal.
Attempt(o) == IF rejected[o] # None THEN "reconnect" ELSE "connect"

Release(o) == lock' = [lock EXCEPT ![Home[o]] = None]

Minted(o, c) ==
    /\ Adopt(o, c)
    /\ Release(o)
    /\ newkey' = [newkey EXCEPT ![o] = FALSE]
    /\ Goto(o, Attempt(o))

\* Mutant: a replacement is not written over a cache that looks as fresh.
SameBurstOrRefused(o, c) ==
    LET cached == Load(Space[o])
    IN Usable(cached) /\ c.expires <= cached.expires

\* A sibling of the same burst was first: its credential is as fresh.
SameBurst(o, c) ==
    LET cached == Load(Space[o])
    IN rejected[o] = None /\ Usable(cached) /\ c.expires <= cached.expires

Certified(o) ==
    /\ pc[o] = "mint" /\ Scheduled(o)
    /\ minted < MaxMints
    /\ minted' = minted + 1
    /\ LET c == [key |-> cred[o].key,
                 cert |-> [serial |-> minted + 1, key |-> cred[o].key,
                           period |-> now, authority |-> authority],
                 expires |-> now + 1]
       IN /\ cred' = [cred EXCEPT ![o] = c]
          /\ \/ SameBurst(o, c) /\ Minted(o, c) /\ UNCHANGED todo
             \/ /\ ~SameBurst(o, c)
                /\ todo' = [todo EXCEPT ![o] =
                              IF newkey[o] THEN <<"key", "cert", "meta">>
                              ELSE <<"cert", "meta">>]
                /\ Goto(o, "truncate")
                /\ UNCHANGED <<current, lock, newkey>>
    /\ UNCHANGED <<now, authority, disk, rejected, unsaved>>

\* Mutant: the lock is not released when the request fails.
MintFailsLocked(o) ==
    /\ pc[o] = "mint" /\ Scheduled(o)
    /\ Leave(o)
    /\ UNCHANGED <<world, disk, current, lock, todo, unsaved>>

\* The request fails, or brings nothing that can be used.
MintFails(o) ==
    /\ pc[o] = "mint" /\ Scheduled(o)
    /\ Release(o)
    /\ Leave(o)
    /\ UNCHANGED <<world, disk, current, todo, unsaved>>

\* Opening a file for writing empties it; its content follows. The three files
\* of Load are read in one step.
Put(o, file, key, cert, expires) ==
    /\ keyfile' = IF file = "key" THEN key ELSE keyfile
    /\ certfile' = IF file = "cert" THEN [certfile EXCEPT ![Space[o]] = cert] ELSE certfile
    /\ metafile' = IF file = "meta" THEN [metafile EXCEPT ![Space[o]] = expires] ELSE metafile

Truncate(o) ==
    /\ pc[o] = "truncate"
    /\ Put(o, Head(todo[o]), None, None, None)
    /\ Goto(o, "write")
    /\ UNCHANGED <<world, current, lock, cred, newkey, rejected, todo, unsaved>>

Write(o) ==
    /\ pc[o] = "write"
    /\ Put(o, Head(todo[o]), cred[o].key, cred[o].cert, cred[o].expires)
    /\ todo' = [todo EXCEPT ![o] = Tail(@)]
    /\ IF Tail(todo[o]) = <<>> THEN Minted(o, cred[o])
       ELSE Goto(o, "truncate") /\ UNCHANGED <<current, lock, newkey>>
    /\ UNCHANGED <<world, cred, rejected, unsaved>>

\* A directory that is read-only, a disk that is full: used from memory.
SaveFails(o) ==
    /\ pc[o] \in Saving
    /\ Minted(o, cred[o])
    /\ todo' = [todo EXCEPT ![o] = <<>>]
    /\ unsaved' = TRUE
    /\ UNCHANGED <<world, disk, cred, rejected>>

-----------------------------------------------------------------------------
(* Connecting, with one second chance.                                     *)

Connected(o) ==
    /\ pc[o] \in {"connect", "reconnect"} /\ Scheduled(o)
    /\ Accepted(cred[o])
    /\ Leave(o)
    /\ UNCHANGED <<world, disk, current, lock, todo, unsaved>>

\* PermissionDenied: the first is answered with a renewal, the second raised.
Refused(o) ==
    /\ pc[o] \in {"connect", "reconnect"} /\ Scheduled(o)
    /\ ~Accepted(cred[o])
    /\ \/ /\ pc[o] = "connect"
          /\ rejected' = [rejected EXCEPT ![o] = cred[o]]
          /\ Goto(o, "renew")
          /\ UNCHANGED <<cred, newkey>>
       \/ pc[o] = "reconnect" /\ Leave(o)
    /\ UNCHANGED <<world, disk, current, lock, todo, unsaved>>

\* Every other way an attempt ends.
ConnectFails(o) ==
    /\ pc[o] \in {"connect", "reconnect"} /\ Scheduled(o)
    /\ Leave(o)
    /\ UNCHANGED <<world, disk, current, lock, todo, unsaved>>

-----------------------------------------------------------------------------
(* The program is killed, at any point of _save, and started again with a  *)
(* new client.                                                             *)
Crash(p) ==
    /\ \E o \in Openers : Home[o] = p /\ pc[o] # "idle"
    /\ pc' = [o \in Openers |-> IF Home[o] = p THEN "idle" ELSE pc[o]]
    /\ todo' = [o \in Openers |-> IF Home[o] = p THEN <<>> ELSE todo[o]]
    /\ current' = [current EXCEPT ![p] = [w \in Workspaces |-> None]]
    /\ lock' = [lock EXCEPT ![p] = None]
    /\ unsaved' = (unsaved \/ \E o \in Openers : Home[o] = p /\ pc[o] \in Saving)
    /\ cred' = [o \in Openers |-> IF Home[o] = p THEN None ELSE cred[o]]
    /\ newkey' = [o \in Openers |-> Home[o] # p /\ newkey[o]]
    /\ rejected' = [o \in Openers |-> IF Home[o] = p THEN None ELSE rejected[o]]
    /\ UNCHANGED <<world, disk>>

NextPeriod ==
    /\ now + authority < MaxChanges
    /\ now' = now + 1
    /\ UNCHANGED <<authority, minted, disk, current, lock, pc, cred, newkey, rejected, todo, unsaved>>

Rotate ==
    /\ now + authority < MaxChanges
    /\ authority' = authority + 1
    /\ UNCHANGED <<now, minted, disk, current, lock, pc, cred, newkey, rejected, todo, unsaved>>

Next ==
    \/ \E o \in Openers :
          \/ Ensure(o) \/ EnsureLocked(o) \/ RenewLocked(o)
          \/ Certified(o) \/ MintFails(o)
          \/ Truncate(o) \/ Write(o) \/ SaveFails(o)
          \/ Connected(o) \/ Refused(o) \/ ConnectFails(o)
    \/ \E p \in Clients : Crash(p)
    \/ NextPeriod \/ Rotate

Spec == Init /\ [][Next]_vars

-----------------------------------------------------------------------------
TypeOK ==
    /\ now \in 0 .. MaxChanges /\ authority \in 0 .. MaxChanges
    /\ minted \in 0 .. MaxMints
    /\ keyfile \in Keys \cup {None}
    /\ certfile \in [Workspaces -> Certificate \cup {None}]
    /\ metafile \in [Workspaces -> (0 .. MaxChanges + 1) \cup {None}]
    /\ current \in [Clients -> [Workspaces -> Credential \cup {None}]]
    /\ lock \in [Clients -> Openers \cup {None}]
    /\ \A o \in Openers : lock[Home[o]] = o <=> pc[o] \in Saving \cup {"mint"}
    /\ pc \in [Openers -> Saving \cup
                  {"idle", "ensure", "connect", "renew", "reconnect", "mint"}]
    /\ cred \in [Openers -> Credential \cup {None}]
    /\ newkey \in [Openers -> BOOLEAN]
    /\ rejected \in [Openers -> Credential \cup {None}]
    /\ \A o \in Openers : todo[o] # <<>> <=> pc[o] \in Saving
    /\ unsaved \in BOOLEAN

\* Sandboxes of one Client connect to a workspace with one credential, those
\* that were refused with one renewed, unless theirs would be refused anyway.
\* Nothing is said of sandboxes with a client each: they may mint one each.
RefusalsShareRenewal ==
    \A o, q \in Openers :
       /\ pc[o] \in {"connect", "reconnect"} /\ Accepted(cred[o])
       /\ pc[q] \in {"connect", "reconnect"} /\ Accepted(cred[q])
       /\ Home[o] = Home[q] /\ Space[o] = Space[q]
       => cred[o] = cred[q]

\* The second attempt is not made with the credential that was refused, and by
\* then that one is gone from the cache, where another client would take it
\* up: unless the cache could not be written, or the credential has expired.
RefusedIsReplaced ==
    \A o \in Openers : pc[o] = "reconnect" =>
       /\ cred[o] # rejected[o]
       /\ Usable(rejected[o]) => unsaved \/ Load(Space[o]) # rejected[o]

\* What the cache passes for usable is a certificate over the key beside it.
CacheMatches ==
    \A w \in Workspaces : Usable(Load(w)) => Load(w).cert.key = Load(w).key
=============================================================================
