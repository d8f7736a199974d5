-------------------------------- MODULE Vault --------------------------------
(***************************************************************************)
(* The credential vault (util/crypto/vault.ts, store/accounts.ts): one     *)
(* encrypted file that every process reads, changes and writes whole, with *)
(* a copy in its memory that is good while the file's stamp is the same;   *)
(* the key file, or the passphrase and the unlock session a daemon is      *)
(* given and lends; and `myna vault passphrase`, which seals the vault.    *)
(*                                                                         *)
(* A process does not wait within an update, but another may come between  *)
(* any two of its system calls.                                            *)
(***************************************************************************)
EXTENDS Jobs

CONSTANT Edits   \* changes of accounts: one saved, archived, made a mirror, removed

ASSUME VaultAssumption == "seal" \notin Edits

VARIABLES
  vault,     \* vault.json
  keyFile,   \* vault.key, 0 when there is none
  made,      \* how many keys and salts were made; each has a number
  knows,     \* the processes that were told the passphrase
  session,   \* the key each has by an unlock, 0 when none
  cache,     \* the payload in each one's memory
  vpc, vop,  \* where each is in an update, and with what
  saved,     \* history: changes whose update ended
  raced,     \* history: changes another update was under way with
  unsafe     \* history: a key made over another; a vault sealed twice, or unsealed

vaultVars == <<vault, keyFile, made, knows, session, cache, vpc, vop, saved, raced, unsafe>>

(* stamp: the file's mtime and size, as how often it was written; salt and  *)
(* key: a key derived from the passphrase has the number of its salt        *)
NoVault == [stamp |-> 0, mode |-> "none", salt |-> 0, key |-> 0, holds |-> {}]
NoCache == [stamp |-> -1, holds |-> {}]

(* file: what it read of vault.json; key: what it opens or seals it with    *)
NoOp == [edit |-> "none", stamp |-> 0, file |-> NoVault, key |-> 0, payload |-> {},
         save |-> FALSE]

(* A vault that every process has read, or none yet *)
VaultInit ==
  /\ made \in {0, 1} /\ keyFile = made
  /\ vault = [NoVault EXCEPT !.stamp = made, !.key = made,
                            !.mode = IF made = 1 THEN "keyfile" ELSE "none"]
  /\ knows = {} /\ session = [w \in Workers |-> 0]
  /\ cache = [w \in Workers |-> IF made = 1 THEN [NoCache EXCEPT !.stamp = 1] ELSE NoCache]
  /\ vpc = [w \in Workers |-> "idle"] /\ vop = [w \in Workers |-> NoOp]
  /\ saved = {} /\ raced = {} /\ unsafe = FALSE

Step(w, where, op) == vpc' = [vpc EXCEPT ![w] = where] /\ vop' = [vop EXCEPT ![w] = op]

Remember(w, stamp, holds) == cache' = [cache EXCEPT ![w] = [stamp |-> stamp, holds |-> holds]]

(* Others in the middle of an update *)
UpdateElsewhere(w) == {o \in Workers \ {w} : vpc[o] \notin {"idle", "unlink"}}

Race(w) ==
  raced' = raced \cup (Edits \cap ({vop[o].edit : o \in UpdateElsewhere(w)}
                                     \cup {vop[w].edit : o \in UpdateElsewhere(w)}))

(***************************************************************************)
(* load                                                                    *)
(***************************************************************************)
(* mutant: the copy in memory is good for as long as the process lives *)
FreshOnce(w) == cache[w] # NoCache

Fresh(w) == cache[w].stamp = vault.stamp

(* The payload is changed where it is, in memory, before it is saved *)
Change(w, op, stamp, holds) ==
  /\ Remember(w, stamp, holds \cup {op.edit})
  /\ Step(w, "save", [op EXCEPT !.payload = holds \cup {op.edit}])

Begin(w, e) ==
  /\ vpc[w] = "idle" /\ e \notin saved /\ \A o \in Workers : vop[o].edit # e
  /\ LET op == [NoOp EXCEPT !.edit = e, !.stamp = vault.stamp]
     IN  IF Fresh(w) THEN Change(w, op, cache[w].stamp, cache[w].holds)
                     ELSE Step(w, "load", op) /\ UNCHANGED cache
  /\ UNCHANGED <<vault, keyFile, made, knows, session, saved, raced, unsafe, faults>>

(* `myna vault passphrase` reads it without the copy *)
BeginSeal(w) ==
  /\ vpc[w] = "idle" /\ vault.mode = "keyfile"
  /\ Step(w, "load", [NoOp EXCEPT !.edit = "seal"])
  /\ UNCHANGED <<vault, keyFile, made, knows, session, cache, saved, raced, unsafe, faults>>

Load(w) ==
  /\ vpc[w] = "load"
  /\ IF vault = NoVault THEN Change(w, vop[w], vop[w].stamp, {})
     ELSE Step(w, "key", [vop[w] EXCEPT !.file = vault]) /\ UNCHANGED cache
  /\ UNCHANGED <<vault, keyFile, made, knows, session, saved, raced, unsafe, faults>>

(***************************************************************************)
(* The key, to open the vault or to seal it                                *)
(***************************************************************************)
(* It throws: VaultLockedError, or the vault does not decrypt *)
GiveUp(w) == Step(w, "idle", NoOp) /\ UNCHANGED cache

With(w, key) ==
  LET op == vop[w]
  IN  IF op.save THEN Step(w, "write", [op EXCEPT !.key = key]) /\ UNCHANGED cache
      ELSE IF key # op.file.key THEN GiveUp(w)
      ELSE IF op.edit = "seal"
           THEN Step(w, "prompt", [op EXCEPT !.payload = op.file.holds]) /\ UNCHANGED cache
           ELSE Change(w, op, op.stamp, op.file.holds)

(* keyfileKey; passphraseModeKey: the passphrase, else the session *)
Key(w) ==
  /\ vpc[w] = "key"
  /\ IF vop[w].file.mode = "keyfile"
     THEN IF keyFile # 0 THEN With(w, keyFile)
          ELSE Step(w, "make", vop[w]) /\ UNCHANGED cache
     ELSE IF w \in knows THEN With(w, vop[w].file.salt)
          ELSE IF session[w] # 0 THEN With(w, session[w])
          ELSE GiveUp(w)
  /\ UNCHANGED <<vault, keyFile, made, knows, session, saved, raced, unsafe, faults>>

(* There was none *)
MakeKey(w) ==
  /\ vpc[w] = "make"
  /\ keyFile' = made + 1 /\ made' = made + 1
  /\ unsafe' = (unsafe \/ keyFile # 0)
  /\ With(w, made + 1)
  /\ UNCHANGED <<vault, knows, session, saved, raced, faults>>

(***************************************************************************)
(* save                                                                    *)
(***************************************************************************)
(* writeVault keeps mode and salt of the file that is there; the first one  *)
(* is sealed with a key file                                                *)
SaveVault(w) ==
  /\ vpc[w] = "save"
  /\ Step(w, "key", [vop[w] EXCEPT !.save = TRUE,
       !.file = IF vault = NoVault THEN [NoVault EXCEPT !.mode = "keyfile"] ELSE vault])
  /\ UNCHANGED <<vault, keyFile, made, knows, session, cache, saved, raced, unsafe, faults>>

Write(w) ==
  LET op == vop[w]
  IN  /\ vpc[w] = "write"
      /\ vault' = [stamp |-> vault.stamp + 1, mode |-> op.file.mode, salt |-> op.file.salt,
                   key |-> op.key, holds |-> op.payload]
      /\ unsafe' = (unsafe \/ (vault.mode = "passphrase" /\ op.file.mode = "keyfile"))
      /\ Race(w) /\ Step(w, "stamp", op)
      /\ UNCHANGED <<keyFile, made, knows, session, cache, saved, faults>>

(* The stamp is the file's, whoever wrote it *)
Stamp(w) ==
  /\ vpc[w] = "stamp"
  /\ Remember(w, vault.stamp, vop[w].payload)
  /\ saved' = saved \cup {vop[w].edit} /\ Step(w, "idle", NoOp)
  /\ UNCHANGED <<vault, keyFile, made, knows, session, raced, unsafe, faults>>

(***************************************************************************)
(* myna vault passphrase, unlock, lock                                     *)
(***************************************************************************)
Gone(w) ==
  /\ Step(w, "idle", NoOp) /\ cache' = [cache EXCEPT ![w] = NoCache]
  /\ knows' = knows \ {w} /\ session' = [session EXCEPT ![w] = 0]

(* mutant: the key file is deleted first *)
RekeyLate(w) ==
  /\ vpc[w] \in {"prompt", "unlink"}
  /\ \/ /\ vpc[w] = "prompt" /\ keyFile' = 0 /\ Step(w, "unlink", vop[w])
        /\ UNCHANGED <<vault, made, knows, session, cache, raced, unsafe>>
     \/ /\ vpc[w] = "unlink" /\ Gone(w)
        /\ vault' = [stamp |-> vault.stamp + 1, mode |-> "passphrase", salt |-> made + 1,
                     key |-> made + 1, holds |-> vop[w].payload]
        /\ made' = made + 1 /\ UNCHANGED <<keyFile, raced, unsafe>>
  /\ UNCHANGED <<saved, faults>>

(* The passphrase was typed twice: what was read before is sealed with a    *)
(* key of a salt of its own, and the key file deleted                       *)
Rekey(w) ==
  /\ vpc[w] = "prompt"
  /\ vault' = [stamp |-> vault.stamp + 1, mode |-> "passphrase", salt |-> made + 1,
               key |-> made + 1, holds |-> vop[w].payload]
  /\ unsafe' = (unsafe \/ vault.mode = "passphrase")
  /\ made' = made + 1 /\ Race(w) /\ Step(w, "unlink", vop[w])
  /\ UNCHANGED <<keyFile, knows, session, cache, saved, faults>>

UnlinkKey(w) ==
  /\ vpc[w] = "unlink" /\ keyFile' = 0 /\ Gone(w)
  /\ UNCHANGED <<vault, made, saved, raced, unsafe, faults>>

(* An operator unlocks a daemon, which tries the key on the vault; or a     *)
(* command borrows it from a daemon, or asks for the passphrase             *)
Unlock(w) ==
  /\ vpc[w] = "idle" /\ vault.mode = "passphrase" /\ vault.key = vault.salt
  /\ session' = [session EXCEPT ![w] = vault.key]
  /\ cache' = IF session[w] # 0 THEN [cache EXCEPT ![w] = NoCache] ELSE cache
  /\ UNCHANGED <<vault, keyFile, made, knows, vpc, vop, saved, raced, unsafe, faults>>

Borrow(w, o) ==
  /\ vpc[w] = "idle" /\ vault.mode = "passphrase"
  /\ w \notin knows /\ session[w] = 0 /\ session[o] = vault.key
  /\ session' = [session EXCEPT ![w] = session[o]]
  /\ UNCHANGED <<vault, keyFile, made, knows, cache, vpc, vop, saved, raced, unsafe, faults>>

Tell(w) ==
  /\ vpc[w] = "idle" /\ vault.mode = "passphrase" /\ w \notin knows /\ session[w] = 0
  /\ knows' = knows \cup {w} /\ cache' = [cache EXCEPT ![w] = NoCache]
  /\ UNCHANGED <<vault, keyFile, made, session, vpc, vop, saved, raced, unsafe, faults>>

(* myna lock, or the session's time is up when its key is asked for *)
Lock(w) ==
  /\ vpc[w] \in {"idle", "key"} /\ session[w] # 0
  /\ session' = [session EXCEPT ![w] = 0] /\ cache' = [cache EXCEPT ![w] = NoCache]
  /\ UNCHANGED <<vault, keyFile, made, knows, vpc, vop, saved, raced, unsafe, faults>>

VaultCrash(w) ==
  /\ vpc[w] # "idle" /\ Fault /\ Gone(w)
  /\ UNCHANGED <<vault, keyFile, made, saved, raced, unsafe>>

VaultNext ==
  \E w \in Workers :
    \/ \E e \in Edits : Begin(w, e)
    \/ BeginSeal(w) \/ Load(w) \/ Key(w) \/ MakeKey(w) \/ SaveVault(w) \/ Write(w) \/ Stamp(w)
    \/ Rekey(w) \/ UnlinkKey(w) \/ Unlock(w) \/ Tell(w) \/ Lock(w) \/ VaultCrash(w)
    \/ \E o \in Workers \ {w} : Borrow(w, o)

VaultSpec == faults = 0 /\ VaultInit /\ [][VaultNext]_<<vaultVars, faults>>

(***************************************************************************)
(* Properties                                                              *)
(***************************************************************************)
Vaults == [stamp : Nat, mode : {"none", "keyfile", "passphrase"}, salt : 0..made,
           key : 0..made, holds : SUBSET Edits]

(* The type of every variable; a worker that saves has something to save. *)
VaultTypeOK ==
  /\ made \in Nat /\ keyFile \in 0..made /\ vault \in Vaults
  /\ knows \subseteq Workers /\ session \in [Workers -> 0..made]
  /\ cache \in [Workers -> [stamp : Int, holds : SUBSET Edits]]
  /\ vpc \in [Workers -> {"idle", "load", "key", "make", "save", "write", "stamp",
                          "prompt", "unlink"}]
  /\ vop \in [Workers -> [edit : Edits \cup {"none", "seal"}, stamp : Nat, file : Vaults,
                          key : 0..made, payload : SUBSET Edits, save : BOOLEAN]]
  /\ saved \subseteq Edits /\ raced \subseteq Edits /\ unsafe \in BOOLEAN

(* store/accounts.ts:9: a cache read once "wrote the old list back over the   *)
(* new one, deleting the account", and cli/vault-cmd.ts:113, "The vault now   *)
(* opens only with that passphrase".  Whoever changes, seals, unlocks, locks  *)
(* and dies when, the vault opens with the key file or the passphrase, and    *)
(* holds every change whose update no other was under way with; unless two    *)
(* processes made the key file or sealed the vault at once, or one saved with *)
(* what it had read before the vault was sealed.                              *)
VaultKept ==
  ~unsafe =>
    /\ vault.mode = "keyfile" => keyFile = vault.key
    /\ vault.mode = "passphrase" => vault.key = vault.salt
    /\ saved \ raced \subseteq vault.holds
=============================================================================
