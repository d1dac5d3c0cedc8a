------------------------------ MODULE KeyStore ------------------------------
(***************************************************************************)
(* The router's long-term key files (spec component C2): Router::          *)
(* EnsureIdentity finds or creates the encryption key, then the identity   *)
(* key (or derives it from the lokid seed file), through                   *)
(* llarp_findOrCreateEncryption / llarp_findOrCreateIdentity               *)
(* (src/llarp/router/router.cpp) and SecretKey::SaveToFile / LoadFromFile  *)
(* (src/llarp/crypto/types.cpp).  Before that, Router::Configure has each  *)
(* link it creates find or create the transport key file through           *)
(* ILinkLayer::EnsureKeys (src/llarp/link/server.cpp).                     *)
(*                                                                         *)
(* The files outlive the process: the daemon may be killed at any step     *)
(* and started again.  SaveToFile opens the file (std::ofstream truncates  *)
(* it) and writes the bencoded key ("64:" and 64 bytes) in a second step,  *)
(* so a kill between the two leaves a torn file.                           *)
(*                                                                         *)
(* A key is a number; Junk is 64 bytes whose public half is not that of    *)
(* its seed.  LoadFromFile decodes a 128-byte stack buffer of which only   *)
(* the file's bytes were read; the rest is uninitialized, and what is      *)
(* decoded from it is one of: a failure, a key bencoded earlier at that    *)
(* stack location by this process, or Junk.                                *)
(***************************************************************************)
EXTENDS Naturals

CONSTANTS
    MaxKeys,       \* bound on the keys identity_keygen/encryption_keygen make
    MaxRestarts,   \* bound on the daemon's kills and restarts
    UsingSNSeed,   \* usingSNSeed: the identity comes from lokid's seed file
    SeedFileOK,    \* the seed file has the 32 bytes IdentitySecret wants
    Inbound,       \* inbound links FromConfig creates (each calls EnsureKeys)
    Junk,          \* a key that is not any generated key
    None

ASSUME MaxKeys \in Nat /\ MaxRestarts \in Nat /\ Inbound \in Nat
ASSUME UsingSNSeed \in BOOLEAN /\ SeedFileOK \in BOOLEAN

Keys == 1..MaxKeys
KeyFiles == {"transport", "encryption", "identity"}
\* The files SecretKey::SaveToFile and LoadFromFile handle.
SecretKeyFiles == {"encryption", "identity"}

\* The seed key seed_to_secretkey derives from a valid lokid seed file.
SeedKey == 0

VARIABLES
    disk,      \* key file -> None (absent) or [fmt, key]
    mem,       \* _encryption and _identity
    pc,        \* progress of EnsureIdentity: <<file, step>>, or Down,
               \* Failed, Configured
    stale,     \* keys this process has bencoded on the stack
    nextKey,   \* the next key keygen makes
    restarts,
    linksLeft  \* EnsureKeys calls Configure has still to make

Down       == <<"daemon", "down">>
Failed     == <<"daemon", "failed">>
Configured == <<"daemon", "configured">>

durable == <<disk, nextKey>>
vars == <<disk, mem, pc, stale, nextKey, restarts, linksLeft>>

Init ==
    /\ disk = [f \in KeyFiles |-> None]
    /\ mem = [f \in KeyFiles |-> None]
    /\ pc = <<"transport", "find">>
    /\ stale = {}
    /\ nextKey = 1
    /\ restarts = 0
    /\ linksLeft = Inbound + 1

\* What LoadFromFile yields for a file: None for false, else the key.
\*   - not open: false;  64 bytes: the raw key;  over 128 bytes: false;
\*   - otherwise BDecode over the 128-byte buffer: a complete bencoded key
\*     decodes; a torn file leaves the buffer's tail uninitialized.
LoadResults(file) ==
    CASE file = None             -> {None}
      [] file.fmt = "raw"        -> {file.key}
      [] file.fmt = "bencoded"   -> {file.key}
      [] file.fmt = "torn"       -> {None, Junk} \cup stale

\* What comes after the key file f is loaded: the identity after the
\* encryption key (from the seed file when usingSNSeed), then done.
AfterLoad(f) ==
    IF f = "identity" THEN Configured
    ELSE IF UsingSNSeed THEN <<"identity", "seed">>
    ELSE <<"identity", "find">>

\* findOrCreate: when the file does not exist, generate a key and save it;
\* either way, load the file.
FindOrCreate(f) ==
    /\ pc = <<f, "find">>
    /\ IF disk[f] = None
       THEN /\ nextKey <= MaxKeys
            /\ mem' = [mem EXCEPT ![f] = nextKey]
            /\ nextKey' = nextKey + 1
            /\ pc' = <<f, "open">>
       ELSE /\ pc' = <<f, "load">>
            /\ UNCHANGED <<mem, nextKey>>
    /\ UNCHANGED <<disk, stale, restarts, linksLeft>>

\* SaveToFile, first part: BEncode the key into the stack buffer, then
\* open the file for writing, which truncates it.  A failed open returns
\* false, and so does findOrCreate.
SaveOpen(f) ==
    /\ pc = <<f, "open">>
    /\ stale' = stale \cup {mem[f]}
    /\ \/ /\ disk' = [disk EXCEPT ![f] = [fmt |-> "torn", key |-> mem[f]]]
          /\ pc' = <<f, "write">>
       \/ /\ pc' = Failed
          /\ UNCHANGED disk
    /\ UNCHANGED <<mem, nextKey, restarts, linksLeft>>

\* SaveToFile, second part: write the buffer; f.good() is the result.  A
\* failed write leaves what it wrote.
SaveWrite(f) ==
    /\ pc = <<f, "write">>
    /\ \/ /\ disk' = [disk EXCEPT ![f] = [fmt |-> "bencoded", key |-> mem[f]]]
          /\ pc' = <<f, "load">>
       \/ /\ pc' = Failed
          /\ UNCHANGED disk
    /\ UNCHANGED <<mem, stale, nextKey, restarts, linksLeft>>

\* SecretKey::LoadFromFile into _encryption / _identity.
LoadFromFile(f) ==
    /\ pc = <<f, "load">>
    /\ \E k \in LoadResults(disk[f]) :
         IF k = None
         THEN /\ pc' = Failed
              /\ UNCHANGED <<mem, stale>>
         ELSE /\ mem' = [mem EXCEPT ![f] = k]
              /\ stale' = IF disk[f].fmt = "raw" THEN stale ELSE stale \cup {k}
              /\ pc' = AfterLoad(f)
    /\ UNCHANGED <<disk, nextKey, restarts, linksLeft>>

\* IdentitySecret::LoadFromFile: the seed file must hold exactly 32 bytes.
SeedIdentity == IF SeedFileOK THEN SeedKey ELSE None

\* llarp_loadServiceNodeIdentityKey: load the seed, and seed_to_secretkey
\* derives the identity from it.
LoadSeed ==
    /\ pc = <<"identity", "seed">>
    /\ IF SeedIdentity # None
       THEN /\ mem' = [mem EXCEPT !["identity"] = SeedIdentity]
            /\ pc' = Configured
       ELSE /\ pc' = Failed
            /\ UNCHANGED mem
    /\ UNCHANGED <<disk, stale, nextKey, restarts, linksLeft>>

\* ILinkLayer::EnsureKeys on the transport key file: the same find, or
\* keygen and save, then load.
EnsureKeys == FindOrCreate("transport")

\* BEncodeWriteFile (util/bencode.hpp, not in this tree), first part: the
\* key is bencoded into a stack buffer and the file opened for writing.
WriteFileOpen == SaveOpen("transport")

\* BEncodeWriteFile, second part: the buffer is written; the stream's state
\* is not looked at, so a failed write is not reported.
WriteFileWrite ==
    /\ pc = <<"transport", "write">>
    /\ \/ disk' = [disk EXCEPT !["transport"] = [fmt |-> "bencoded", key |-> mem["transport"]]]
       \/ UNCHANGED disk
    /\ pc' = <<"transport", "load">>
    /\ UNCHANGED <<mem, stale, nextKey, restarts, linksLeft>>

\* Router::Configure after an EnsureKeys succeeds: the next link's, the
\* outbound link's last, then EnsureIdentity.
AfterEnsureKeys ==
    IF linksLeft > 1 THEN <<"transport", "find">> ELSE <<"encryption", "find">>

\* BDecodeReadFile: the whole file is read and decoded; a torn file is not
\* a bencoded key.
ReadFile ==
    /\ pc = <<"transport", "load">>
    /\ IF disk["transport"].fmt = "bencoded"
       THEN /\ mem' = [mem EXCEPT !["transport"] = disk["transport"].key]
            /\ pc' = AfterEnsureKeys
            /\ linksLeft' = linksLeft - 1
       ELSE /\ pc' = Failed
            /\ UNCHANGED <<mem, linksLeft>>
    /\ UNCHANGED <<disk, stale, nextKey, restarts>>

\* The daemon is killed, at any step, or exits after a failed Configure.
Crash ==
    /\ pc # Down
    /\ restarts < MaxRestarts
    /\ pc' = Down
    /\ UNCHANGED <<disk, mem, stale, nextKey, restarts, linksLeft>>

\* The daemon starts again: only the files are left.
Restart ==
    /\ pc = Down
    /\ pc' = <<"transport", "find">>
    /\ mem' = [f \in KeyFiles |-> None]
    /\ stale' = {}
    /\ restarts' = restarts + 1
    /\ linksLeft' = Inbound + 1
    /\ UNCHANGED durable

Next ==
    \/ \E f \in SecretKeyFiles : FindOrCreate(f) \/ SaveOpen(f) \/ SaveWrite(f) \/ LoadFromFile(f)
    \/ EnsureKeys \/ WriteFileOpen \/ WriteFileWrite \/ ReadFile
    \/ LoadSeed \/ Crash \/ Restart

Spec == Init /\ [][Next]_vars

-----------------------------------------------------------------------------
(* Properties *)

Key == Keys \cup {SeedKey, Junk}

TypeOK ==
    /\ disk \in [KeyFiles -> {None} \cup [fmt : {"raw", "bencoded", "torn"}, key : Key]]
    /\ mem \in [KeyFiles -> {None} \cup Key]
    /\ stale \subseteq Key
    /\ nextKey \in 1..(MaxKeys + 1) /\ restarts \in 0..MaxRestarts
    /\ linksLeft \in 0..(Inbound + 1)

\* A router that passed EnsureIdentity holds the keys its files hold in
\* full (the identity may instead come from the lokid seed), whatever step
\* an earlier run of the daemon was killed at: what SaveToFile wrote is what
\* the next start loads, or the start fails.
KeysAsPersisted ==
    pc = Configured =>
        \A f \in KeyFiles :
            \/ f = "identity" /\ UsingSNSeed /\ mem[f] = SeedKey
            \/ /\ disk[f] # None /\ disk[f].fmt \in {"raw", "bencoded"}
               /\ mem[f] = disk[f].key
====
