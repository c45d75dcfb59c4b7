----------------------------- MODULE Maintainer ------------------------------
(* A maintainer (maintainer.c) serves checkpoint files to the swarm and       *)
(* announces their hashes, signed when it is the origin. A donor pulls what   *)
(* the tracker assigns and keeps the truth that came with it. Sidecars next   *)
(* to the files save the next start a rehash. The owner of an origin may edit *)
(* a file at any moment; the process may be killed between any two steps.     *)
(* One file; its bytes are named by their version, and its size, mtime and    *)
(* ctime by a stamp that every change of the file advances.                   *)
EXTENDS Integers
CONSTANTS Version, Donor, HaveKey, Trust, MaxEdits, None
VARIABLES content, stamp,   \* the file on disk (None: absent)
          sha, sig,         \* sidecars: [stamp, of] / version it signs
          saved,            \* model.mid: root of the saved identity
          swarm,            \* version the tracker vouches for, None: nothing
          step, seen, got,  \* the main thread; stat and bytes it has read
          file,             \* in memory: [stamp, hash, sig], None: not held
          root,             \* identity announced
          fd, data, reply   \* a served read: open or not; bytes read; bytes sent
disk == <<content, stamp, sha, sig, saved>>
mem == <<file, root, seen, got>>
read == <<fd, data, reply>>
vars == <<disk, swarm, step, mem, read>>

Sidecar == [stamp : Nat, of : Version]
HeldFile == [stamp : Nat, hash : Version \cup {None}, sig : Version \cup {None}]
(* What is assumed of the constants: None is none of the values it replaces.  *)
MaintainerConstants ==
    /\ 1 \in Version /\ None \notin Version /\ None \notin Sidecar /\ None \notin HeldFile
    /\ Donor \in BOOLEAN /\ HaveKey \in BOOLEAN

Blank == [stamp |-> stamp, hash |-> None, sig |-> None]
Init == /\ content = (IF Donor THEN None ELSE 1) /\ stamp = 0 /\ sha = None /\ sig = None
        /\ saved = None /\ swarm \in {None, 1}
        /\ step = "off" /\ seen = None /\ got = None /\ file = None /\ root = None
        /\ fd = FALSE /\ data = None /\ reply = None
Go(s) == step' = s
(* The owner replaces the checkpoint under the running process.               *)
Edit(v) ==
    /\ ~Donor /\ stamp < MaxEdits /\ v # content
    /\ content' = v /\ stamp' = stamp + 1
    /\ UNCHANGED <<sha, sig, saved, swarm, step, mem, read>>
Swarm(v) == swarm' = v /\ v # swarm /\ UNCHANGED <<disk, step, mem, read>>
(* The process dies: memory is lost, files stay as they are.                  *)
Crash ==
    /\ step # "off" /\ Go("off")
    /\ file' = None /\ root' = None /\ seen' = None /\ got' = None
    /\ fd' = FALSE /\ data' = None /\ reply' = None
    /\ UNCHANGED <<disk, swarm>>

(* scan_dir, then pull_slice for a donor that lacks the file.                 *)
scan_dir ==
    /\ step = "off"
    /\ IF content # None THEN file' = Blank /\ Go("hash")
       ELSE UNCHANGED file /\ Go(IF Donor THEN "truth" ELSE "off")
    /\ UNCHANGED <<disk, swarm, root, seen, got, read>>
(* fetch_truth: with an operator key, no bytes are pulled without a truth.    *)
fetch_truth ==
    /\ step = "truth"
    /\ seen' = swarm
    /\ IF swarm = None /\ Trust THEN Go("off") ELSE Go("pull")
    /\ UNCHANGED <<disk, swarm, file, root, got, read>>
(* pull_file: every chunk from a peer or the relay is compared with the truth;*)
(* the part file is synced, then renamed. It may fail at any chunk.           *)
pull_file ==
    /\ step = "pull"
    /\ \/ \E v \in Version : /\ (seen # None => v = seen)
                             /\ content' = v /\ stamp' = stamp + 1 /\ Go("keep")
       \/ Go("off") /\ UNCHANGED <<content, stamp>>
    /\ UNCHANGED <<sha, sig, saved, swarm, mem, read>>
(* pull_slice keeps the truth, signature and all: first the hashes ...        *)
KeepTruth ==
    /\ step = "keep"
    /\ file' = [stamp |-> stamp, hash |-> seen, sig |-> seen]
    /\ sha' = IF seen # None THEN [stamp |-> stamp, of |-> seen] ELSE sha
    /\ Go("keepsig")
    /\ UNCHANGED <<content, stamp, sig, saved, swarm, root, seen, got, read>>
(* ... then the signature.                                                    *)
KeepSig ==
    /\ step = "keepsig"
    /\ sig' = IF file.sig # None THEN file.sig ELSE sig
    /\ seen' = None /\ Go("hash")
    /\ UNCHANGED <<content, stamp, sha, saved, swarm, file, root, got, read>>

(* hash_file: a sidecar with the same stat answers; otherwise the signature   *)
(* of the old bytes is removed before the file is read.                       *)
HashBegin ==
    /\ step = "hash"
    /\ seen' = stamp
    /\ IF sha # None /\ sha.stamp = stamp
       THEN file' = [file EXCEPT !.stamp = stamp, !.hash = sha.of] /\ Go("cached") /\ UNCHANGED sig
       ELSE file' = [file EXCEPT !.stamp = stamp, !.hash = None, !.sig = None] /\ Go("read") /\ sig' = None
    /\ UNCHANGED <<content, stamp, sha, saved, swarm, root, got, read>>
HashRead ==
    /\ step = "read" /\ got' = content /\ Go("stat")
    /\ UNCHANGED <<disk, swarm, file, root, seen, read>>
Stable == stamp = seen
(* The vector counts only if the file did not change meanwhile. Saving it may *)
(* fail; the process goes on.                                                 *)
HashEnd ==
    /\ step \in {"cached", "stat"}
    /\ IF ~Stable THEN file' = [file EXCEPT !.hash = None] /\ Go("identity") /\ UNCHANGED sha
       ELSE /\ file' = [file EXCEPT !.hash = IF step = "stat" THEN got ELSE @]
            /\ Go("sign")
            /\ \/ step = "stat" /\ sha' = [stamp |-> seen, of |-> got]
               \/ UNCHANGED sha
    /\ got' = None
    /\ UNCHANGED <<content, stamp, sig, saved, swarm, root, seen, read>>
(* load_sig, sign_truth, save_truth: the origin signs what it hashed; the     *)
(* sidecars are written, or not.                                              *)
sign_truth ==
    /\ step = "sign"
    /\ file' = [file EXCEPT !.sig = IF HaveKey THEN file.hash ELSE IF sig # None THEN sig ELSE @]
    /\ sig' = IF HaveKey THEN file.hash ELSE sig
    /\ sha' \in {sha, [stamp |-> file.stamp, of |-> file.hash]}
    /\ Go("identity") /\ seen' = None
    /\ UNCHANGED <<content, stamp, saved, swarm, root, got, read>>
(* model_identity_prepare: the origin's key decides; a donor takes the        *)
(* swarm's, or its saved one; a keyless origin that differs is refused.       *)
model_identity_prepare ==
    LET chosen == IF HaveKey /\ ~Donor THEN file.hash
                  ELSE IF Donor THEN IF swarm # None THEN swarm ELSE saved
                  ELSE file.hash
    IN
    /\ step = "identity"
    /\ IF \/ HaveKey /\ ~Donor /\ file.hash = None
          \/ ~HaveKey /\ ~Donor /\ file.hash # None /\ swarm # None /\ swarm # file.hash
          \/ Trust /\ chosen = None
       THEN Go("off") /\ file' = None /\ UNCHANGED <<root, saved>>
       ELSE /\ root' = chosen /\ Go("serve") /\ UNCHANGED file
            /\ saved' = IF chosen # None THEN chosen ELSE saved
    /\ seen' = None
    /\ UNCHANGED <<content, stamp, sha, sig, swarm, got, read>>

(* read_range: the file is opened once, and refused when it is not the file   *)
(* that was hashed; the bytes are sent only if it still is after the read.    *)
ReadBegin ==
    /\ step = "serve" /\ data = None /\ (fd \/ stamp = file.stamp)
    /\ fd' = TRUE /\ data' = content /\ reply' = None
    /\ UNCHANGED <<disk, swarm, step, mem>>
(* Mutant: the bytes are sent without looking at the file again.              *)
BugUnchanged == TRUE
Unchanged == stamp = file.stamp
ReadEnd ==
    /\ data # None
    /\ reply' = IF Unchanged THEN data ELSE None
    /\ data' = None
    /\ UNCHANGED <<disk, swarm, step, mem, fd>>

Next == \/ scan_dir \/ fetch_truth \/ pull_file \/ KeepTruth \/ KeepSig \/ HashBegin \/ HashRead
        \/ HashEnd \/ sign_truth \/ model_identity_prepare \/ ReadBegin \/ ReadEnd \/ Crash
        \/ (\E v \in Version : Edit(v)) \/ \E v \in Version \cup {None} : Swarm(v)
Spec == Init /\ [][Next]_vars
------------------------------------------------------------------------------
(* Whatever is edited, killed or restarted, and whether the hashes came from  *)
(* a rehash, a sidecar or the tracker: the bytes sent are the bytes whose     *)
(* hashes are announced, and a signature announced covers these hashes.       *)
AnnouncedIsServed ==
    step = "serve" =>
        /\ reply # None /\ file.hash # None => reply = file.hash
        /\ file.sig # None => file.sig = file.hash
=============================================================================
