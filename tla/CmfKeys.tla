------------------------------- MODULE CmfKeys -------------------------------
(***************************************************************************)
(* One call of the key provider that DefaultRegistry holds for a build     *)
(* (cmfkeys.go makeProvider): find the keytable and the two generated      *)
(* functions of the build, run the Key function over a buffer of 32 bytes  *)
(* and the IV function over a buffer of 16.  An action is one lookup, one  *)
(* seed or one iteration of a loop.                                        *)
(*                                                                         *)
(* A buffer is a sequence with, for every byte written, the index of the   *)
(* keytable and the index of the digest that were read for it (NoByte for  *)
(* none).  Go panics on an index outside of the array; pc = "panic" is     *)
(* that panic, which nothing recovers.                                     *)
(***************************************************************************)
EXTENDS CmfFuncs, Sequences

(* The 512 bytes of a keytable, the 20 of a SHA-1 digest, and a byte.        *)
TableSlots  == 0..511
DigestSlots == 0..19
Octets      == 0..255

CONSTANTS Headers,      \* [DataCount, EntryCount, version] as LoadCMF reads them
          Keytables,    \* a function: keytables to run the functions with
          Digests,      \* a function: SHA-1 digests of plain names
          NoByte

(* The counts are uint32 and the version a byte of the header; NoByte is no  *)
(* index.                                                                    *)
ASSUME HeadersAssumption ==
  \A h \in Headers : h.DataCount \in Word /\ h.EntryCount \in Word /\ h.version \in Octets
ASSUME ArraysAssumption ==
  /\ \A t \in DOMAIN Keytables : Keytables[t] \in [TableSlots -> Octets]
  /\ \A d \in DOMAIN Digests : Digests[d] \in [DigestSlots -> Octets]
ASSUME NoByteAssumption == NoByte \notin TableSlots \cup DigestSlots

KeySize == 32
IVSize  == 16

VARIABLES call, pc, phase, func, kidx, seed, buffer, key

vars == <<call, pc, phase, func, kidx, seed, buffer, key>>

------------------------------------------------------------------------------
(* LoadCMF asks the registry for hdr.BuildVersion and every provider is     *)
(* registered for its own build, so BuildVersion is the build of the        *)
(* functions.                                                                *)
KnownBuilds == builtinKeytables

Env == [BuildVersion |-> call.build, DataCount |-> call.hdr.DataCount,
        EntryCount |-> call.hdr.EntryCount, version |-> call.hdr.version,
        keytable |-> Keytables[call.keytable], digest |-> Digests[call.digest],
        length |-> IF phase = "key" THEN KeySize ELSE IVSize]

Init ==
  /\ \E b \in KnownBuilds, h \in Headers, t \in DOMAIN Keytables, d \in DOMAIN Digests :
       call = [build |-> b, hdr |-> h, keytable |-> t, digest |-> d]
  /\ pc = "lookup" /\ phase = "key"
  /\ func = NoByte /\ kidx = 0 /\ seed = 0
  /\ buffer = <<>> /\ key = <<>>

Lookup ==
  /\ pc = "lookup"
  /\ IF call.build \in builtinKeytables \cap KeyBuilds \cap IVBuilds
     THEN pc' = "seed" /\ func' = builtinKeyFuncs[call.build]
     ELSE pc' = "error" /\ UNCHANGED func
  /\ UNCHANGED <<call, phase, kidx, seed, buffer, key>>

Seed ==
  /\ pc = "seed"
  /\ IF ReadsTable(func.seed) /\ SeedIndex(Env, func.seed) \notin TableSlots
     THEN pc' = "panic" /\ UNCHANGED <<kidx, seed>>
     ELSE /\ pc' = "loop"
          /\ kidx' = SeedValue(Env, func.seed)
          /\ seed' = kidx'
  /\ UNCHANGED <<call, phase, func, buffer, key>>

Iterate ==
  /\ pc = "loop" /\ Len(buffer) < Env.length
  /\ LET next   == Step(Env, seed, kidx, func.step)
         table  == IF UsesTable(func.mix) THEN signedMod(kidx, 512) ELSE NoByte
         digest == IF UsesDigest(func.mix)
                   THEN DigestIndex(Env, next, Len(buffer), func.mix) ELSE NoByte
     IN IF table \in TableSlots \cup {NoByte} /\ digest \in DigestSlots \cup {NoByte}
        THEN /\ kidx' = next
             /\ buffer' = Append(buffer, [table |-> table, digest |-> digest])
             /\ pc' = pc
        ELSE pc' = "panic" /\ UNCHANGED <<kidx, buffer>>
  /\ UNCHANGED <<call, phase, func, seed, key>>

(* Mutant: key and IV share a buffer.                                       *)
ReturnSharesBuffer ==
  /\ pc = "loop" /\ Len(buffer) = Env.length
  /\ IF phase = "key"
     THEN /\ phase' = "iv" /\ pc' = "seed" /\ func' = builtinIVFuncs[call.build]
          /\ key' = buffer /\ UNCHANGED buffer
     ELSE pc' = "done" /\ UNCHANGED <<phase, func, buffer, key>>
  /\ UNCHANGED <<call, kidx, seed>>

(* Mutant: the Key function makes the IV as well.                           *)
ReturnSameFunction ==
  /\ pc = "loop" /\ Len(buffer) = Env.length
  /\ IF phase = "key"
     THEN /\ phase' = "iv" /\ pc' = "seed"
          /\ key' = buffer /\ buffer' = <<>> /\ UNCHANGED func
     ELSE pc' = "done" /\ UNCHANGED <<phase, func, buffer, key>>
  /\ UNCHANGED <<call, kidx, seed>>

Return ==
  /\ pc = "loop" /\ Len(buffer) = Env.length
  /\ IF phase = "key"
     THEN /\ phase' = "iv" /\ pc' = "seed" /\ func' = builtinIVFuncs[call.build]
          /\ key' = buffer /\ buffer' = <<>>
     ELSE pc' = "done" /\ UNCHANGED <<phase, func, buffer, key>>
  /\ UNCHANGED <<call, kidx, seed>>

Next == Lookup \/ Seed \/ Iterate \/ Return

Spec == Init /\ [][Next]_vars

------------------------------------------------------------------------------
(* Cursors are 32 bits wide, and no buffer is written past its end.         *)
TypeOK ==
  /\ pc \in {"lookup", "seed", "loop", "done", "error", "panic"}
  /\ phase \in {"key", "iv"}
  /\ {kidx, seed} \subseteq Word
  /\ Len(buffer) <= Env.length

(* The one build whose IV function indexes the keytable with a difference it *)
(* does not reduce (keyfuncs_generated.go:3139).                              *)
Unmasked == {39103}

(* Every call for a known build returns a key and an IV: no function is      *)
(* missing, no index leaves the 512 bytes of the keytable or the 20 of the   *)
(* digest whatever the cursor wraps to, no divisor is zero.                  *)
Derives == call.build \notin Unmasked => pc \notin {"error", "panic"}

(* "It writes the IV schedule into buffer[:length]" (runtime.go:67-69), for  *)
(* every build and every digest.                                             *)
IVDerives == ~(phase = "iv" /\ pc = "panic")

(* Two builds ignore the name of the file: 37703 has no IV at all (16 zero   *)
(* bytes) and 50148 builds it from the header alone.                         *)
IgnoreName == {37703, 50148}

(* Files of one build share the key, so their IVs must tell them apart: every *)
(* byte of the IV of every other build is mixed with a byte of the digest of  *)
(* the plain name, and no byte of a key is.                                   *)
IVTellsFilesApart ==
  pc = "done" =>
    /\ Len(key) = KeySize /\ Len(buffer) = IVSize
    /\ \A i \in DOMAIN key : key[i].table # NoByte /\ key[i].digest = NoByte
    /\ call.build \notin IgnoreName => \A i \in DOMAIN buffer : buffer[i].digest # NoByte
==============================================================================
