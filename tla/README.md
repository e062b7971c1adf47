# Verification of the executable KLE models

`src/kat/` of this repository holds executable models of the Key Locker Extension (KLE): the
management unit that owns the lockers, its extension with memory transfers, derivation and
long-running operations, and one model per family of Machines (ciphers, hashes, signatures, KEMs).
The known-answer tests run them along fixed scripts. This directory holds TLA+ modules of those
models, TLC configurations that check them on small instances under every interleaving, and
theorems that TLAPS proves for every instance.

Paths below are relative to the repository; `mgmt_model.py` stands for `src/kat/mgmt_model.py`, and
so on. Run everything in this directory: `tlc -config MCManage.cfg MCKLEMgmt`,
`tlapm KLEMgmt_proofs.tla`.

## The system

### Components

| Component | State | Operations | Interaction |
|---|---|---|---|
| `KLE` (`mgmt_model.py`) | 32 lockers (MDH, content, tag, slot), `klnamedlocker`, `klstart`, free slots and released contents, CSK levels and selection, LST, mode, clock | `kl.mgmt` open/export/complete, `mvin`/`mvout`, `kl.setst`, `kl.setste`, `kl.exec`, `kl.clear`, `clearall`, `kl.clearads`, `kl.rstr*`, `kl.clone`/`rename`/`swap`, getters | shared by every hart and handler; CSRs written by software between instructions |
| `KLE2` (`mgmt_ext.py`) | serialized images, KLIOBUF and its two CSRs, `MachineUse`, dirty status, import qualifiers | block and memory transfers with page faults, `kl.exec` with windows and halts, long-running operation, `kl.derive`, SKID resolution, system-specific import, reset, decoding | overrides `KLE`; memory |
| SCC (`scc_core.py`, `scc_locker.py`) | Serialized Content, SIVs, import qualifier, Locality Secrets, CSK | export, import | overrides completion and export of `KLE2` |
| Metadata (`common.py`) | none | field access, narrowing, transfer rules (GR30) | called by all |
| AEAD/MAC Machines (`aead_model.py`) | State, key, counters, lengths, tag | `setst`, `exec` (halts, windows), `derive_dest`, restrict, export/import | a locker each |
| Sponge Machines (`sponge_model.py`) | State, sponge, lengths, Sealed | the same, `derive` in both directions | sources and destinations of `kl.derive` |
| Hash/HMAC Machines (`hash_model.py`) | State, chaining value, block, lengths, K0, KeySealed | the same | the same |
| Elliptic Curve Machines (`ecc_machine.py`) | State, fields with Has flags, Progress, message passes | loads, operations with halts, output, derive source | RBG |
| ML-DSA Machines (`mldsa_locker.py`) | State, fields with Has flags, `MachineUse`, `rnd`, ADS | loads, emission, halted signature, export/import | RBG |
| ML-KEM Machines (`mlkem-kat.py`, class `Mach`) | State, three fields with Has flags, position | loads, emission, encapsulation, decapsulation, derive | RBG |
| Symmetric ciphers (`sym_model.py`) | State, keys, IV, counter, mask, stealing step | `setst`, `exec`, derive, export/import | a locker each |
| Primitives and references | none | pure functions | compared with test vectors by the KATs |
| KAT scripts, `run-kats.py` | none | fixed scripts over the models | |
| `scripts/`, workflows, Sail fragments | files, tags | release versions, site build | outside the KLE |

### What is hard

* **Interleaving.** The unit is shared. Between the `kl.mgmt` that opens an operation and the
  transfers and completion that follow, handlers and other harts clone, rename, swap, clear and
  restrict lockers, switch modes, withdraw CSKs and change the LST. `klnamedlocker`, `klstart` and
  the CSK selection are single registers that all of them use.
* **Partial failure.** Instructions are destructive first: an opening or a clone frees its
  destination before it knows whether a CSK is in use or capacity is left.
* **Limits and boundaries.** Capacity, the saturating clock, the reuse of released slots.
* **Sequences.** Nested operations (an export opened on an import), restrictions repeated over
  exports and imports, errors entered from every State.
* **Halts and resumption** (KLE2 and the Machines): `klstart` after a page fault or a halted
  `kl.exec`, a nonce kept for a halted signature, a partial load abandoned.

Nothing is persisted outside exported images, and no component sends messages; reset is the only
restart.

### What makes each component correct

* `KLE`: capacity is conserved; a locker in an Error State has no slot, content or tag; a configured locker has
  the Metadata of its State; a trap never leaves a half-configured locker; `klnamedlocker` follows
  its CC; policies only narrow; use is gated by mode and date; a CSK is established from words meant
  for it; contents come only from lockers, transfers and draws.
* `KLE2`: a transfer interrupted by faults moves every block once and in order; an image is the one
  of the locker's CC; a halted `kl.exec` resumes with the same window; a secret is derived once;
  a refused derivation changes at most the endpoints it names.
* SCC: an import yields what was exported under the same Locality Secrets and CSK, or an Error State.
* Machines: output only after the input it depends on; a field is used only when complete; a nonce of a
  signature, a counter block of GCM and a mask of XEX never serve twice; a halted operation resumes to the result of the unhalted one;
  a sealed content is never readable.
* Primitives: what is signed, sealed or encapsulated comes back; nothing else is accepted; a value has
  one encoding; the files that implement one function agree; a signature says nothing of its key.

## The modules

| Module | Models | From |
|---|---|---|
| `Metadata` | MDH fields, State classes, Locality narrowing, the tests of an opening | `mgmt_model.py`, `common.py` |
| `KLEMgmt` | class `KLE`: one action per instruction; and the reset of `KLE2` | `mgmt_model.py`, `mgmt_ext.py` |
| `CCLifecycle` | abstract: contexts are opened, finished, moved, copied, destroyed; a name follows one | |
| `KLEMgmtProps` | what makes the unit correct; what the documentation says and the code does not do | |
| `KLETransfer` | class `KLE2`: images, block transfers, loads and stores with page faults, KLIOBUF, `kl.exec` on windows | `mgmt_ext.py` |
| `KLEDerive`, `KLEDeriveProps` | class `KLE2`: `kl.derive`, System Key Identifiers, long-running operations | `mgmt_ext.py`, `common.py` |
| `AEAD`, `Sym`, `Hash`, `Sponge`, `ECC` | a locker of each family of Machines | `aead_model.py`, `sym_model.py`, `hash_model.py`, `sponge_model.py`, `ecc_machine.py` |
| `Machines` | the five families, and the properties that they share | |
| `Software`, `AEADSoftware`, `HashSoftware` | software that encrypts, authenticates and hashes messages with `AEAD` and `Hash`: instruction sequences, and plans for parts, halts, final pieces and reads | `aead_util.py`, `hash_util.py`, `hash_model.py`, `hmac-kat.py` |
| `MLDSA` | class `Locker`: loads, emissions, halted signatures, export and import | `mldsa_locker.py` |
| `SigningSession` | abstract: a session is begun on a key, message and random value and ends with their signature | |
| `MLKEM` | class `Mach`: loads, emissions, encapsulation, decapsulation, derivation | `mlkem-kat.py` |
| `SecretSource` | abstract: a secret is announced by its ciphertext, given once, and gone | |
| `MLDSAProps`, `MLKEMProps` | what makes the two lockers correct | |
| `MLDSAModel`, `MLKEMModel`, `ECCModel` | the algorithms, over small rings and curves | `mldsa_model.py`, `mlkem_model.py`, `ecc_model.py` |
| `SCCCore` | export and import of a locker as terms | `scc_core.py`, `scc_locker.py` |
| `Bytes`, `CipherModel` | AES at full size, SM4 and TDEA over small blocks | `common.py` |
| `AEADRef`, `HashRef` | the references of GCM, GCM-SIV, OCB, CMAC, Keccak, the sponges, Ascon-AEAD, the encodings, the compressions of SHA-2, SM3 and BLAKE2 | `aead_ref.py`, `hash_ref.py`, `sponge_ref.py`, `common.py` |
| `References` | the algorithms together, and the properties that they share | |
| `MC...` | instances for TLC, with a `.cfg` per run | |
| `KLEMgmt_proofs`, `KLETransfer_proofs`, `KLEDerive_proofs`, `MLDSA_proofs`, `MLKEM_proofs`, `Machines_proofs`, `Software_proofs`, `SCCCore_proofs` | theorems | |

Definitions whose comment begins with "Mutant:" are wrong forms of the definition that follows them.
No specification uses them; `PROJECT.json` pairs each with the property that catches it.

### `KLEMgmt` and the code

`L` is `s.L`; a locker is its MDH, content, tag and whether it holds a slot. `nl`, `start`, `slots`,
`pool`, `csk_levels`, `csk_sel`, `csk_partial`, `lst`, `mode` and `clock` are the attributes of the
same names; `out` is what the call returned or raised. An action is a whole method, `free`, `alloc`
and `err` included, with the order of its side effects: `mgmt` moves `nl` before `require_csk` may
trap, `clone` frees its destination before it knows of capacity. The CSK check that precedes most
instructions is the action `MissingCSK`.

* An MDH is a record; policies are sets of admitted States or modes, Localities small numbers per
  entry. `Supplied`, `Requests` and `Images` are the operands that software may pass.
* A content is a model value, `toy_tag` a constant function, a drawn key any member of `RandomKeys`.
* `unverified` is a history field, set where an SCC import opens and reset where its tag is compared;
  no action reads it.
* Mode, clock and CSK withdrawal change by actions of the environment (`external` in the map): the
  harts and the supervisor write them between instructions. `klstart` is written by `setks` of `KLE2`.
* `reset` is the one of `KLE2`, on the state that the two classes share: it frees every locker, keeps the
  capacity and the clock, and forgets the CSK, its words and its selection by establishment way.
* Read-only instructions (`getmd`, `getst`, `size`, `avail`, `mvout`, ...) change nothing and are no
  actions. `_sysfmt_complete` of this class raises `NotImplementedError`.

### `KLETransfer` and `KLEDerive` and the code

`KLETransfer` has one thread of software, stopped at the instruction that faulted or halted (`job`), and a
handler that may open, complete, transfer, use Machines, and clear, copy, move and exchange lockers meanwhile, leaves
KLIOBUF and the locker of that instruction alone, and restores `klnamedlocker` and `klstart` (`saved`). The
image `img` is a part of a locker: `free` drops it and `rename` and `swap` carry it, since they move the `Locker`
object. Positions count 16-byte blocks. A fault or an interrupt is possible at every block: a transfer of a locker
and a `kl.exec` leave `klstart` there (`Ends`), one of KLIOBUF leaves it where it began (`EndsInPlace`). `job`
also records what the instruction found when it began, and is read by the property only. `reset` ends both.

`KLEDerive` has whole contents and two lockers. `derive` is one action with the order of the checks of the
code: both operands, dates, policies, kinds, lengths, leaks, and only then narrowing and the move of the
content. `origins`, `fields`, `served`, `work` and `imported` are history; `imported` is the MachineUse that a CC came
with, which an import keeps, until its operation begins. A long-running operation is `lr`: it draws a
budget, goes on from its progress (the attribute `steps`, which no image has), and ends or halts. What the text says of the Off statuses and Dirty marks
of a context switch is not modelled.

### `Machines` and the code

One locker with one CC of one Machine, and software that may issue every `kl.setst`, every `kl.exec` (any
window, any `klstart` that a halt left or that software wrote, an interrupt at any point), loads, derivations,
restrictions of MachinePolicy, and the export and import of its State, in any order. Of the data, a model
keeps what the properties tell apart:

| | kept | left out |
|---|---|---|
| `AEAD` | blocks absorbed and fed, counters used, lengths, tag bytes | keys, text, the ciphers |
| `Sym` | segments done, counters and exponents of masks used | keys, text, the ciphers |
| `Hash`, `Sponge` | bits absorbed and read, compressions, whether a secret that is sealed is in the message or the key | digests, padding, the permutation |
| `ECC` | how much of each field is loaded, flags, progress, pass and message, whether a nonce is fresh | arithmetic |

The history fields (`fed`, `given`, `used`, `twice`, `reused`, `out`, ...) are written by actions and read
by properties only.

### `Software` and the code

`Machines` lets software do anything; these two let it do what the sequences of the documentation do, and ask
whether that works. A job is a message with its lengths, and what software wants of it. `Program` of
`AEADSoftware` is the list of instructions that a function of `aead_util.py` issues, and `todo` what is left of it;
`run`, `digest`, `out_all`, `read_bits` and `derive_out` of `HashSoftware` are the loops of the same names.
Every `kl.exec` may be halted and is issued again with the `klstart` that the halt left. `may`, `sum` and `was`
are history.

### `References` and the code

A behaviour is one use of one algorithm: a key pair, a signature and its verification; a locker, its image,
changes of the image and an import; a message and its hash. The algorithms are those of the source, with
their parameters as constants and the smallest values that keep their structure: four coefficients
modulo 97 or 137, curves of a few points, blocks of four bytes. What an XOF gives is any value that its
sampler can return (`SamplesAssumption` has TLC check that the instance draws no other), a digest is what
was hashed. `Ascon-AEAD` is over an ideal permutation, whose outputs differ when its inputs do.

### `MLDSA` and the code

A field is a sequence of units; a transfer carries a few. What makes a key well formed, and what key
generation, signing and verification compute, are constants with assumptions. `rnd` is the number of
its draw, 0 the zero value. A signature that is under way has its `mu_use` as progress and `ads` as
what the ADS records, so `import_` with a matching ADS resumes where `export` left off and without one
begins again. `draws`, `snaps`, `imports` and `nonces` belong to no locker: the RBG, the images that
software keeps, and the history of what was signed with which value. The bound of a rejection loop
(`Bounded`) and an RBG failure are choices, as both depend on data left out.

### `MLKEM` and the code

`field` holds `dk`, `ct` and `ss` (`encapsk` is a part of `dk`), `flags` the four Has flags, `W` the
position. `_goto` is `_leave` followed by `_enter`, always a part of the action that calls it. The
faults that `controls` of the script inject are not part of the Machine; several serve as mutants.
`out` records what was emitted or derived, `draws` bounds the RBG. `kl.derive` takes its destination
as a kind, a length and whether its locker can put out what is derived with it.

## The runs

| Run (`.cfg`) | Instance | Shows |
|---|---|---|
| `manage` (`MCManage`) | 2 lockers, 1 slot, 6 kinds of input | capacity, what inert lockers have cleared, traps that only destroy, contents of released and allocated slots, which the unit zeroes (`zero_alloc`), `CCLifecycle` |
| `restrict` (`MCRestrict`) | 2 lockers, dated inputs of two Machines, 6 requests, Error States, `klstart` 0 or 16 | policies only narrow, over exports and moves; `klnamedlocker` follows its CC, and no other takes its place while `klstart` goes on |
| `use` (`MCUse`) | 1 locker, 2 modes, 2 CSK levels written word by word, a clock that saturates, or none | use is gated by mode and date; words of one CSK group have one target, over missing-CSK exceptions and resets |
| `transfer` (`MCTransfer`) | 2 lockers, images of 1 and 2 blocks, a KLIOBUF of 2 | a transfer that was cut is whole; an image is current, also after copies, moves, exchanges and clears |
| `derive` (`MCDerive`) | 2 lockers, 9 kinds of CC, 3 System Keys, 1 secret, Debug, a clock | restrictions of every hop are kept; a secret serves once; refusals move nothing; a long-running operation ends |
| `machines` (`MCMachines`) | 33 Machines (with kind and extension) | the eight properties of `Machines` |
| `software` (`MCSoftware`) | 12 Machines, texts of 0 to 7 units in blocks of 2, a counter of 5 values; messages of 0 to 10 bits in blocks of 4 and bytes of 2 | no instruction of a sequence or plan is refused, all is processed once, decryption uses the keystream of encryption |
| `mldsa_load` (`MCLoad`) | 2-unit fields, all States | keys match; nothing is left of an abandoned load |
| `mldsa_sign` (`MCSign`) | halts after 0 or 1 more iterations, 2 draws, 1 snapshot, 1 import | no nonce serves twice; sessions; every halted signature ends |
| `mlkem` (`MCMLKEM`) | 4-unit keys, 2-unit ciphertexts, 3 draws | secrets match keys and ciphertexts, are checked, given once |
| `references` (`MCReferences`) | see above | round trips, only the original, one encoding, agreement, and signatures that hide their key |
| `unverified` (`MCUnverified`) | 1 locker | expected to be violated, see below |

### Why the bounds are enough

* Two lockers and one slot make every allocation compete with a free and every instruction with two
  operands meet the same, a free and a configured locker. A third locker would let `klnamedlocker` name one
  that a move of the two others leaves alone; what `restrict` shows of two is proved of any number.
* `SomeLST` leaves entries out, so the Locality tests of an opening both pass and fail. Six inputs
  cover the branches of `_open`: a provisioning with a random key, an SCC image, a short image, a PPI,
  a system-specific one, a Machine that is not implemented.
* `MaxDate` is 3, the expiry of `Dated` 2, requests ask for 1 and 3: dates on both sides, and a clock
  that passes and saturates.
* In `transfer`, an image of two blocks (header and content, in the units of `ImageOf`) and a KLIOBUF of two have
  a first and a last block and a cut between them, and that of a Provisioning Input has one; the handler may repeat
  each instruction that the thread was in. Software sets KLIOBUF to two blocks and its top to one or two, and asks for
  two. Two lockers are what a copy, a move and an exchange need; nothing orders them, so they are a symmetric set
  (no liveness is checked). The theorems are of any number.
* In `restrict`, `klstart` is 0 after an opening, an export or a completion and 16 where software or a transfer has
  left it. That no CC takes the place of the named one is checked with both, and two Machines tell one CC from another.
* `derive` has every kind of source (secret, sealed secret, key, keystream, System Key Identifier, signature)
  and destination, lengths at, below and above what a destination holds, and dates, modes, policies,
  Localities and SCProtection levels that differ, so that each check of the code is met both ways. An
  operation of three steps against budgets of one and two is halted once or twice; an image of one that had
  reported two steps is imported and begins anew.
* In `machines` the counter has four values and OCB three blocks, so both reach their end and go past it;
  windows hold a block, a part of one, and more than one; what is fed passes the end of a block in every
  position. A Machine treats no further block differently.
* Software's texts end before, at and past the end of a block, and past the end of the counters; a bit string
  ends within a byte, within a block, and at a block; what is left in the locker by one job meets the next.
* Fields of two units have a first, a middle and a last transfer; transfers of one, two and three units
  end before, at and past the end.
* Signing takes two to four iterations against a limit of three, so a signature ends at once, after a
  halt, after two halts, and at the limit. Two draws are what a nonce shared between two sessions
  needs; one snapshot brings back a halted session once it has ended.
* In `mlkem`, the key of the environment and those of three draws are distinct, so a secret can lie
  beside the wrong key or ciphertext.
* In `references`, noise takes its greatest values, coefficients sit at the bounds of rejection and
  rounding, every key of a curve is tried with every digest, messages end before, at and after a block, and
  pairs are included whose padding or encoding would meet if a separator were missing. Keccak-f goes through
  all its rounds at full size; SHA-2 and SM3 go through twenty and BLAKE2 through two, on words of 16 bits,
  with messages that end in the first block, at its last place for a length and after it. A small ring shows
  the structure and the bounds of the algorithms, not the strength of their parameters.

`MaxDraws`, `MaxSnaps`, `MaxImports`, `ExportStates`, `MaxFields`, `MaxPieces` and the bounds of windows and
feeds limit the environment, not the code. `nonces`, `pool`, `start` and the clock need no other bound: they
are bounded by these and by `Capacity`, `StartValues` and `MaxDate`.

Deadlock is checked in every run that expects a pass but `references`, where a behaviour ends with its use, and
`software`, where one ends with a locker in an Error State.

### Where code and documentation disagree

`unverified` checks a sentence of `Zkl-ISA-unpriv.adoc` and is expected to be violated: `_export_open` admits
a locker whose import is not complete, and `_complete` compares the tag only in the States of an import.
Import, open the export, complete it: the content becomes Valid and was never authenticated.

Other differences were met while modelling; the modules follow the code, and no run is kept for them:

* a `kl.mgmt` that opens an export or completes and then traps has already moved `klnamedlocker`
  (`mgmt_model.py:299`, `Zkl-ISA-unpriv.adoc:2304`);
* `rstr` stores the zero MachinePolicy in a locker whose Machine forbids it (`mgmt_model.py:253`,
  `Zkl-ISA-unpriv.adoc:2292`), and raises an exception for a refused Locality where the text asks for an
  Error State (`mgmt_model.py:263`, `Zkl-ISA-unpriv.adoc:1756`);
* `err` keeps `MachineUse`, where Rule GR15 zeroes the implementation-defined fields (`mgmt_model.py:103`,
  `Zkl-ISA-unpriv.adoc:2201-2204`): so does `ErrMDH`, and `InertIsCleared` names the fields it speaks of, without
  this one;
* a KLIOBUF transfer that faults leaves `klstart` where it began and moves its prefix again, since `_iobuf_xfer`
  counts in a variable of its own (`mgmt_ext.py:252-259`); Rule GR16 has `klstart` record the completed prefix
  (`Zkl-ISA-unpriv.adoc:2214`), as `load` and `store` do for a locker. `CutTransfersAreWhole` holds of it all the same,
  because what is moved twice goes to the same place;
* `kl.exec` of keyed BLAKE2 looks at no MachinePolicy, since only HMAC has the gate (`hash_model.py:202`), and a
  `kl.rstrl` that leaves none does not make it Invalid, contrary to the docstring (`hash_model.py:262-266`;
  `Zkl-ISA-machines.adoc:253-256`, `:2667-2670`); `kl.exec` of KMAC looks at none either, which `kl.setst` does
  (`sponge_model.py:237`, `:351`); nor does a `kl.derive` out of CMAC, HMAC or KMAC (`aead_model.py:548`,
  `hash_model.py:307`, `sponge_model.py:447`; `Zkl-ISA-machines.adoc:253`). `OutputIsGated` leaves these out: it speaks
  of `kl.exec` of the AEADs and CMAC, the symmetric ciphers, HMAC and Ascon-AEAD128;
* an image taken in the middle of a long-running operation is imported with its `MachineUse`, but the operation begins
  anew (`mgmt_model.py:319-323`, `mgmt_ext.py:303-309`): until then the locker reports progress that it has not made
  here. `ProgressIsWork` says which of the two `MachineUse` is;
* a load does not mark KLS Dirty (`mgmt_ext.py:76`, `Zkl-ISA-priv.adoc:247`), and `derive` does not look at
  the Off status (`mgmt_ext.py:326`, `Zkl-ISA-priv.adoc:324`);
* under Debug, `derive` asks for the bit of the mode and not of Debug (`mgmt_ext.py:336`,
  `Zkl-ISA-unpriv.adoc:699`);
* OCB with the greatest block index leaves a full last block by `kl.exec` of Form D but not by the `kl.setst`
  that "does the Form D exec" (`aead_model.py:404`): `Fits` of `AEADSoftware` says so;
* OCB that is imported takes a nonce of length zero for none (`aead_model.py:476`, `Zkl-ISA-machines.adoc:1977`).

## Fairness

`mldsa_sign`: `FairSpec` of `MLDSA` is weak fairness of `Reissue`: software that was
interrupted in the `kl.exec` of a signature issues it again, and again and again one of these attempts
completes an iteration before the next interrupt, or ends. The second half is Rule GR37 (the progress
field increases from halt to halt), which `mldsa_locker.py` notes where it records a halt ("P: non-zero,
increasing"). Attempts that are interrupted before their first iteration (`halt = 0`) remain possible
and are not fair. Software may instead leave the State, clear the locker or restore a snapshot; only
the last brings a halted signature back, at most `MaxImports` times.

`derive`: `Spec` of `KLEDerive` is weak fairness of `lr` for each locker, for the same reason: `lr` of
`mgmt_ext.py` completes at least one step of each call. `LongRunningEnds` speaks only of behaviours in which
software from some point on does nothing else, since `kl.setst` or a copy may begin the operation anew
for ever; and only of lockers that it may still use, since a mode without the right to a CC traps.

Nothing else is fair: no instruction of the unit waits for another, and software owes none of them.

## What is proved

TLAPS checks these for every value of the constants that satisfies the named assumptions
(`Metadata`, `KLEMgmt`: options, sizes, contents and inputs have their types; `KLEDerive`: what
provisioning, import and System Key Identifiers leave is typed, and an Asymmetric Key that it leaves is not
transparent; `KLETransfer`: sizes, contents and sources have their types; `MLDSA`, `MLKEM`:
sizes are positive, the algorithms return values of their types on checked keys, a generated key passes the
checks; `Machines`: the Machines are of their families, a block of an AEAD has two units at least, counters
have three values at least, fields two units; `Software`: the same, without fields, and an index of OCB that
may be 1; `SCCCore`: what is exported are lockers, see below). TLC evaluates the assumptions in each run.

### The unit (`KLEMgmt_proofs`)

`Invariance`: `Spec => []IInv`, where `IInv` is `StoreOK /\ ControlOK`. None of the properties is
inductive alone: conservation of capacity needs to know that exactly the configured lockers hold a
slot, which needs the shape of the MDH that each instruction leaves, which needs the types of all
operands; that the pool backs free slots needs conservation. `StoreOK` puts these together. An
instruction changes the store in one of a few ways (discard, allocate, enter an Error State, update
in place, move, swap, clear all, reset), so there is one lemma per way and a step proof only shows that the
new record is well formed. From it: `TypeCorrect`, `CapacityIsConserved`, `InertLockersAreCleared`,
`ConfiguredLockersAreShaped`, `PoolNeverOutgrowsSlots`.

`WordsMatchSelection` proves `PartialGroupMatchesSelection` from `CSKOK`, which adds that words are kept
under the first establishment way only; every step leaves selection and words alone, is a missing-CSK
exception, writes a word or is a reset (`NextCSK`). `TrapsOnlyDestroy` proves the action property `TrapOnlyDestroys`:
a step that traps discards its locker or leaves the store alone.

The second part of the module proves three action properties. `StoreStep` lists the ways in which a step changes
the lockers: it writes one MDH (inert, opened, copied, or an edit that narrows and, between Valid States,
passed the gate), moves or exchanges two lockers and their name, or empties all. `NextStep` shows that
every instruction under `IInv` is such a step; `PoliciesNarrow`, `UsageGated` and `NamedLockerKept`
follow from `StoreStep` alone. For the last, a step that keeps the name and changes its locker can be no move and no
copy into it, since these take the name along or drop it; where it opens, exports or completes it clears `klstart`.

The third part proves the refinement `ImplementsLifecycle`: `Spec => LifecycleSpec`. The class of
a locker follows from its MDH; a step that writes one locker changes one class. That an opening and a copy
find room is where the invariant is needed: exactly the configured lockers hold a slot, and the slots
and the holders add up to `Capacity`.

The second part also proves `ContentLineage` where allocated capacity reads as zero (`zero_alloc`, as in
the runs; the KATs show what comes back without it, `mgmt-kat.py:283`). A locker without a slot
holds no content, so whatever a step copies from a locker was held by a configured one (`FromLocker`).

### Derivations (`KLEDerive_proofs`)

`HoldingInv` is `Typed /\ AllSound /\ SecretServesOnce`. `Sound` says of one locker that its progress is its
work, that it reports this work, or what its image reported as long as there is none, and that its key is as restricted as each of its origins: an instruction writes one locker or two,
from one or two others, so that each step is a lemma about the records it writes. The origins need that to
be as restricted as another is transitive, and that `narrow`, `RestrictMDH` and the destination of `derive`
only descend, field by field. `SecretServesOnce` is a count of the lockers that hold a secret: a step that
moves one changes `Holding` by one locker on each side, and the source loses its own in the step in which
the destination gains. From it: `RestrictionsHold`, `SecretsServeOnce`, `ProgressIsGenuine`; and
`RefusalsMoveNothing` from the verdict of `derive`, which names the lockers to expire before it moves anything.

### The transfers (`KLETransfer_proofs`)

`IInv` is `StoreOK /\ JobOK`. `StoreOK` types the unit; the image of a locker has the blocks of its State
(an import and an export of the same kind have the same), there is none outside the Configuration States,
and one that an export built is the image of the content: a completion takes the content out of the image,
so it takes the same content (`TakenContent`); a copy has none, and a move or an exchange takes a locker as it is
(`CloneStep`, `PutTwoOK`, `MoveStep`). `JobOK` says of the instruction that is in the middle how
much of it is done: the blocks from where it began up to the klstart of the thread are moved or processed,
the others are as they were, and its locker is in the State that it began in. A transfer of KLIOBUF that was cut is
where it began (`IobufDone`), so the piece that ends it moves all of it (`StopsInPlaceIs`). While a handler runs the
klstart of the thread is the one that the handler saved (`Reached`), and `May` keeps the handler from the
locker (`Undisturbed`). A piece of an instruction then adds the blocks up to where it stops
(`WrittenUpTo`, `ProcessedOn`), and one that ends has reached the last. From it: `ImagesAreCurrent`,
`TransfersAreWhole`. The lockers, the sizes of a content and of KLIOBUF, the contents and what is loaded are any.

### The ML-DSA locker (`MLDSA_proofs`)

An import brings back an earlier locker, so `IInv` says the same of the live locker and of every
snapshot. `KeyPairMatches` is strengthened by what `setst` clears: no public flag while a private key
loads, no private flag while a public key loads. `OneMessagePerNonce` is strengthened by `NonceOK`:
a random value held anywhere is in the history together with the key and message beside it. From it:
`TypeCorrect`, `KeyPairsMatch`, `NothingLeftBehind`, `RndIsTransient`, `NoncesAreUsedOnce`.

`ImplementsSession`: `Spec => SessionSpec`. A session is under way while a halted signature has its
progress and its ADS, a signature is ready in its output State, and the random values begun are
`1..draws`. Every instruction but a signature and an emission leaves the State with neither (`Idle`), so
it drops them or shows nothing; a signature begins, goes on with, finishes or fails one session on the key,
message and random value that `IInv` types; an import takes up what a snapshot shows.

### The ML-KEM locker (`MLKEM_proofs`)

`LoadOK` says how far a load has come when its flag is set, and that a secret is held only on its way
out. Nearly every instruction ends in `_goto`; `GotoStep` says once what `_goto` needs of the fields
and flags that it is called with. From it: `TypeCorrect`, `SecretsMatch`, `ChecksHold`,
`NothingRemains`, `ErrorsClear`, and `ImplementsSource`: `Spec => SourceSpec`, where the abstract
secret is `sharedkey` while its flag is set and what is due is the rest of the ciphertext while it is
emitted. A load, an operation and a transition each map to one abstract step or a stutter; that a part
of what is due is the part of the ciphertext at its place is the lemma `RestOfRest`.

### The Machines (`Machines_proofs`)

A step keeps the Machine of its locker, so `IInv` is one invariant for each family: `AOK`, `SOK`, `HOK`, `POK`,
`EOK`. `Steps` puts together one lemma per family (`AStep` ... `EStep`), which have one per instruction. The
sets of Machines, the sizes of a block of the AEADs and of a field of the curves, the counters, the index of OCB
and the bounds on windows and feeds are any; the block of a cipher or of a hash stays two bytes of two bits.

* `AOK`, `SOK`: the counter is where the session began plus the blocks done, modulo its width (`ABlocks`,
  `SCount`), and an AEAD has used those between. That none comes twice needs that `Room` leaves
  fewer blocks than the counter has values, and that what `ATaken` adds is disjoint from what it has
  (`ANext`). Of XEX, `SMask` says of each step of stealing which mask is left out. The counters of CTR and XCTR
  wrap and nothing detects it, as the text says too (`Zkl-ISA-machines.adoc:404`, `:792`).
* `HOK`, `POK`: compressions and the offset in the block add up to what was fed or read
  (`HFeedOK`, `PFeedOK`), by a lemma on how a block-wise loop advances; what is sealed confines the locker to
  States that give nothing (`HSealOK`, `PSealOK`); what `SetKey` has taken is counted (`HKeyOK`).
* A halt is resumable because it is at the end of a block and within the window (`AHaltOK`, `SHaltOK`,
  `HHaltOK`, `PHaltOK`): each guard of `kl.exec` follows for the rest of the window.
* `EOK`: a nonce is held by a halted signature only, which has not used it (`NonceOK`); both passes are over
  in `Sign` alone (`PassOK`); a part of a field is in the State that loads it (`PartOK`).

From it: `NoncesSignOnce`, `EdDSAPassesAgree`, `KeysAreWhole`, `SealedIsNotRead`, `CountersAndMasksServeOnce`,
`NothingIsLost`, `HaltsResume`, and the action property `OutputsAreGated`, which `Steps` shows beside `IInv`. `KeysAreWhole` is about HMAC
and the curves: keyed BLAKE2 finalizes on the part of a key block that it was given (`hash_model.py:112-116`).

### Software (`Software_proofs`)

`IInv` is `AEADInv \/ HashInv`: a step keeps the kind of the Machine. The properties speak of the end of a
sequence; the invariant says of every place on the way what has been done and what is left.

* `AEADInv`: the rest of a program, `todo`, is one of a few lists of instructions for each Machine and job
  (`GPhase`, `SPhase`, `OPhase`, `CPhase`), whose optional parts are defined by what comes after them
  (`Feed`, `Body`, `Rest`). Each goes with the State, the blocks in the hash, the counters used (`Counted`),
  the units given, and, within a `kl.exec`, its klstart (`Window`, `Piece`). A locker in an Error State is
  lost for good (`Dead`), and then the job is not one that policy and counters allow: the
  lemmas `Rooms` and `Taking` show that a counter runs out exactly where `Fits` says so. One lemma per Machine
  (`GStep`, `SStep`, `OStep`, `CStep`) shows that a step leads from a phase to a phase; what an instruction
  does between two phases (`Turning`, `WindowNext`, `PieceThen`, `Closing`) is shown once for all of them. In
  a move, a window keeps its klstart and its counters, so that nothing is processed twice.
* `HashInv`: four times the compressions plus the bits of the block are what a plan has fed (`Held`), with the
  block of a key before it. A plan that feeds parts, a final piece or a secret reaches the same `Total`
  (`HFed`); how a last block is held back (`Ends`) is where the Machines differ. Of the output, the invariant
  adds what was put together to what the window has read (`HAll`, `HDigest`, `HBits`), up to where a Machine
  with a digest of fixed length ends (`Bound`).

The block of an AEAD, its counters, the greatest index of OCB and every bound on lengths and windows are any;
the block of a hash stays two bytes of two bits. From it: `Accepted`, `IsWhole`, `KeystreamIsSame`.

### SCC (`SCCCore_proofs`)

`ImagesRoundTrip` and `OriginalsOnly` are the parts of `RoundTrips` and `OnlyTheOriginal` of `References` that are
about `scc_core.py`, for any lockers, CSKs, entries of the SCC, import qualifiers, lengths in clear and limits, and
any changes of headers. `IInv` says of the image, in whatever way it was changed, that no tag is in it but those that an export
made (`IsImage`), since no change and no import makes one; and, as long as nothing changed it, that it is
the image of its locker. All that a tag covers can be read from it (`TagsRead`), so a first part that verifies is that of the
locker, with the CSK and the entries of its export, and an ADS that verifies was exported beside the same header and
first part (`Genuine`). That it need not be the locker's own is no slip of the invariant: where two lockers with the same
header and Content have other ADSs, `scc_import` takes the ADS of the one in the image of the other, since
`SIV2` is over the `SIV` of the first part alone (`scc_core.py:142`). A part that is deciphered as it was enciphered is the part that was
(`CryptsBack`), wherever it stays in clear, so an image verifies and gives the locker (`Backs`).

`SCCAssumption` is what the code relies on: the header is valid and of a supported Machine, with its ADS
(`scc_core.py:134` asserts that), the Contents are as long as the header tells; and a Content and an import qualifier
are no tag and no ciphertext of the format: these are terms, so that no two collide by chance, and the theorems say nothing
of the strength of GCM-SIV. `References` assumes it of what it exports (`LockersAssumption`), so TLC evaluates it.

## What is only model-checked

* `SigningEnds` and `LongRunningEnds`: liveness under fairness needs ENABLED, which the prover does not handle.
* `References`, but for SCC: its modules use recursive operators, and what a recursion computes for every input needs
  induction over data, which is out of the prover's reach too: `KeyIsHidden`, `ReferencesAgree`, and what `RoundTrips`
  and `OnlyTheOriginal` say of the other algorithms. The lockers take the algorithms as constants
  for that reason; their assumptions (a generated key passes the checks, a signature is of its type) are what
  `references` shows on small instances.

## What is not modelled

* Of `KLE2`: Off statuses and Dirty marks, `_sysfmt_complete` (a toy format), the decoder and encoders,
  operand checks of vectors, `size` and `avail`, the toy VERIFY Machine.
* Of the Sponge Machines: the System Key Sources of Ascon.
* Of the primitives: the permutation of Ascon (fixed tables and rotations, compared with published vectors by
  the KATs; no property but its values), HMAC (so no property looks at keys that differ by zeros at their end), the deterministic nonce, `sym_ref.py`, and the bit-level helpers of `common.py`.
* KAT scripts, release scripts, workflows and Sail fragments: fixed scripts, build machinery, listings.

## Plan

Done: the unit, its transfers and derivations, every family of Machines, software on them, SCC, and the
algorithms; a theorem for each invariant of a locker, of the unit, of software and of SCC.

Left: two ML-KEM lockers that exchange a secret, over `SecretSource`.
