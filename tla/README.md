# A verification development for openfhe.R

openfhe.R is an R package: S7 classes in `R/`, cpp11 bindings in `src/`, and
the OpenFHE C++ library underneath (not in the repository).  This directory
holds TLA+ modules that model the package's own control logic, TLC
configurations that check them on small instances, and TLAPS proofs of the
main invariants for every value of the constants.

The lattice arithmetic of the library is outside the models.  What the
package relies on is kept as *terms*: which secret a key was made from, which
secrets a public key adds up, which random part an evaluation key was made
with, which slots a file holds.  A result that would decrypt to noise is a term
that does not match; no number is computed.  Library behaviour that a model
needs is taken from how `src/` uses it and is marked `external` in
`PROJECT.json`.

## 1. Inventory

| component | state | operations | what is hard |
|---|---|---|---|
| **Evaluation-key registries** (`R/keys.R`, `R/eval-key-map.R`, `R/serialization.R`, `src/pke_key_management_*.cpp`, `src/pke_multi_eval_keys.cpp`, `src/pke_sum_key_serial.cpp`) | two process-wide tables of the library, indexed by key tag: relinearization keys (by value) and automorphism keys (by pointer); R handles on the same map objects | `key_gen`, `eval_*_key_gen`, `get_*_map`, `insert_*`, `clear_*`, `with_fhe_context` | aliasing between handles and registry, merge versus replace, `key_gen()` failing half-way, nested scopes |
| **Threshold decryption** (`R/multiparty.R`, `R/secret-sharing.R`, `src/pke_multiparty.cpp`, `src/pke_secret_sharing.cpp`) | secrets in several R processes, public keys, partial decryptions in transit, share maps | `multiparty_key_gen`, `multi_add_pub_keys`, `multiparty_decrypt_lead/main/fusion`, `threshold_decrypt`, `share_keys`, `recover_shared_key` | several actors; late, repeated, reordered partials; drop-outs; recovery with wrong parameters; the fusion checks nothing |
| **Joint evaluation keys** (`R/eval-key-map.R`, `src/pke_multi_eval_keys.cpp`) | maps of key shares, the registry entry of the joint tag | `multi_eval_*_key_gen`, `multi_add_eval_*_keys`, `insert_eval_*_key` | shares from different generation calls, shares added twice, the joint tag occupied by one party's keys |
| **Serialization** (`R/serialization.R`, `src/pke_serialization.cpp`, `src/pke_sum_key_serial.cpp`) | files, the tables, the session's handles | `fhe_serialize`, `fhe_deserialize`, `serialize_eval_keys`, `deserialize_eval_keys` | failing writes, a process that ends during a save, old checkpoints loaded over newer keys |
| **Interactive bootstrapping** (`R/interactive-bootstrap.R`, `src/pke_ckks_interactive_boot.cpp`) | pairs of masked shares, common random elements, refreshed ciphertexts, in the owners' processes | `int_mp_boot_*`, `int_boot_*` | mixing of rounds, of random elements, missing or repeated parties |
| **Ciphertext operations** (`R/methods-eval*.R`, `R/operators.R`, `src/pke_bindings.cpp`, `src/pke_eval.cpp`, `src/pke_ckks_fast_rotation.cpp`) | ciphertext objects shared by R variables; precomputed digits, ciphertexts of the extended basis | functional, in-place and "mutable" arithmetic, relinearization, rotations | reference semantics, stale precomputations, products of unrelinearized products |
| **Numbers across the boundary** (`R/params*.R`, `R/plaintext*.R`, `R/binfhe.R`, their bindings) | C++ fields and vectors of fixed width; level, scale and slots of plaintexts and ciphertexts | constructors, getters, plaintext makers, metadata getters and setters, `plaintext_params_hash`, lookup tables | `NA`, wrap-around, truncation, metadata handed from one object to another |
| **CKKS approximation and tolerance** (`R/methods-ckks.R`, `R/tolerance.R`, `src/pke_ckks_*.cpp`, `src/pke_closers.cpp`) | level and scaling factor of a ciphertext | polynomial and Chebyshev evaluation, bootstrapping, `fhe_ckks_tolerance` | real arithmetic |
| **Context and features** (`R/context.R`, `R/cryptocontext-getters.R`, `src/pke_cryptocontext_getters.cpp`) | the context's feature mask and parameters, the level of its keys | `fhe_context`, `enable_feature`, `set_key_gen_level`, getters | getters written twice, for parameters and for contexts; masks and single features in one argument |
| **Handles** (`R/openfhe-object.R`, `src/openfhe_cpp11.h`, `src/xptr.cpp`) | tagged external pointers | construction, checked unwrapping, finalization | restored workspaces, wrong types |
| **Boolean circuits** (`R/binfhe.R`, `src/binfhe_bindings.cpp`) | a context's bootstrapping keys | gates, lookup tables | keys of another secret, table entries out of range |
| **Start-up, streams, threads** (`R/zzz.R`, `R/utils.R`, `src/init.cpp`, `src/r_streams.cpp`) | the OpenMP thread count | load hooks, get/set | nothing beyond one call |
| **Enumerations, class declarations, generated glue** (`R/enums.R`, `R/cpp11.R`, `src/cpp11.cpp`, ...) | constants | none | nothing |

R runs one call at a time, so inside one process a call is one step and
interleaving means the order of calls.  Real concurrency enters with the
threshold protocols, whose parties are separate R processes that exchange keys
and ciphertexts by files or messages of their own.  There is no timer, no
retry and no background work in the package, and nothing in it obliges a
caller to make a next call.  The one thing that the code makes happen by itself
is the cleaning at the end of a `with_fhe_context()` scope; it is the one
fairness assumption (section 6).

## 2. Plan

Order of work; what is done is marked.

1. **EvalKeyRegistry** (done): the process-wide tables and the handles on their
   objects.  It comes first because every other part of the package goes
   through it.
2. **JointDecryption** (done), the abstract promise of n-of-n threshold
   decryption, and **ThresholdDecryption** (done), the protocol, shown to
   implement it.
3. **JointEvalKeys** (done): shares of rotation and sum keys and their insertion
   under the joint tag.  It uses the registry's insertion rule but keeps maps as
   values: how handles alias is settled by EvalKeyRegistry.
4. **EvalKeyCheckpoint** (done): files, failing writes, process ends, resume.
5. **CiphertextOps** (done): reference semantics of ciphertext variables,
   in-place updates, dispatch of the arithmetic generics, hoisted rotations.
6. **ParameterNumbers** (done): numbers on their way from R into C++ fields and
   back.
7. **BooleanCircuits** (done): bootstrapping keys, gates and lookup tables.
8. **InteractiveBootstrap** (done): the multi-party rounds.  What the shares of a
   round add up to is upstream's; the order of calls, the mixing of rounds and
   the nesting of sums are the package's.
9. Contexts and metadata in ParameterNumbers, the extended basis in
   CiphertextOps, the liveness of scopes in EvalKeyRegistry (done).
10. Abstract specifications for the components that had none (done):
   **KeyTable**, the registry without objects; **DurableKeys**, sessions and files
   without tables, formats and faults; **JointRefresh**, rounds without masks,
   pairs and sums.  EvalKeyRegistry, EvalKeyCheckpoint and InteractiveBootstrap
   are shown to implement them.
11. What is left: a composition of EvalKeyRegistry with the files of
   EvalKeyCheckpoint, now that both have an abstraction to compose;
   `insert_eval_mult_key` and key tags; handles and their pointer tags across
   restored sessions; the feature mask of `enable_feature`; the level and scale
   bookkeeping of CKKS.  Joint relinearization keys follow only as far as R can
   build them: `multi_add_eval_mult_keys` is bound, the generator of the keys it
   adds up is not (`R/multiparty.R:71-76`).

Theorems: type correctness and the safety properties of each module from one
inductive invariant `IInv`; the action properties from the same invariant; the
four refinements; and the general forms of three of the four findings.  Modules that theorems are about have no
RECURSIVE operator.

## 3. The modules

### EvalKeyRegistry

| model | code |
|---|---|
| `mult[t]` | the library's relinearization table; one vector per tag, by value |
| `aut[t]`, `heap[m]` | the automorphism table is a map from tags to *pointers*; `heap` holds the map objects |
| `handle[m]` | R's `EvalKeyMap` handles: a copy (`get_eval_sum_key_map`), or the registered object itself |
| `skTag[s]` | the tag of a generated secret; `Lost` when `key_gen()` failed after making it |
| `KeyGen`, `KeyGenFails` | `key_gen()` of `R/keys.R`, whose three library calls may each throw |
| `Eval*KeyGen` | `R/eval-key-map.R` generation functions |
| `InsertEvalAutomorphismKey` | `insert_eval_sum_key`, `insert_eval_automorphism_key`, with the tag argument `""` |
| `Clear*`, `EnterScope`, `ExitScope` | `clear_*`, `with_fhe_context` |

A call that ends in an R error and changes no table is a stutter.  Three
history variables say what the caller did: `taken` (tags in use; the library
makes a new one for every pair), `put[t]` (whose automorphism keys were generated
or inserted under `t` since its last clear), `aliased` (tags that were given one
and the same object since their last clear).

Properties.  `NoForeignKeys`: a lookup under a tag finds only keys that were
generated or inserted under it since its last clear, nothing older and nobody
else's, and a relinearization key is always of the tag's own pair; a scope exit
counts as a clear of every tag, also when it is the inner one of two.
`LostSecretsHaveNoRotationKeys`: a secret that a failing `key_gen()` lost may
leave a relinearization key behind but no rotation key.  `HeldMapsOnlyGrow` and
`SnapshotsFrozen`: what later calls may do to a map that R holds.
`RegisteredKeysNotReplaced`: an entry changes only after a clear.
`ScopesEndClean`, a liveness property: whoever enters a scope finds both tables
empty some time later, whatever is generated, inserted or held in it and however
scopes nest.

`ImplementsTable`: seen through lookups, the tables of pointers implement
**KeyTable**, which has keys by tag and index, no objects and no handles.  Its
actions say what a call may do: fill one empty tag, add missing indices to a tag
and to the tags that share with it, give an empty tag the keys of others
(`Join`), clear tags, or give a new pair its keys (`NewPair`).  `Shared` maps a tag to the
tags whose pointer it has.  So no call on a handle, and no call for one tag,
changes what is under a tag it does not share with.

The exception for aliased tags in `NoForeignKeys` is what the code does, not a
convenience of the model: the binding hands the library the handle's own
`shared_ptr`, so a map inserted under two empty tags is one object, and keys
added under either appear under both.

### JointDecryption and ThresholdDecryption

A public key is the chain it belongs to, how often it contains each secret and,
as history, the parties whose calls it was made with (`joined`); a partial
decryption is (ciphertext, lead or main, whose secret); a fusion opens a
ciphertext when the partials it is given add up to the key exactly.  Partial
decryptions are never consumed: a party may receive one late, twice, in any
order or not at all, and the fusion, which checks nothing, may be given any
sequence of them.  A party may end (`DropOut`) and its secret be rebuilt from
shares with the right or with wrong parameters (`RecoverSharedKey`).

`OpenedNeedsAll`: no plaintext without a contribution, to that ciphertext, of
every party that joined its key.  `AnyLeadOpens`: `threshold_decrypt()` with the
secrets of a chained key opens whichever party is first, also after some of the
secrets were recovered.  `ImplementsJoint`: the protocol refines JointDecryption
under `owners <- CtOwners`, the parties that joined the key a ciphertext is
encrypted under.  `RecipeSpec` is the protocol with the callers of
`R/multiparty.R:13-14`, for the finding of section 5.

### InteractiveBootstrap

| model | code |
|---|---|
| `owners` | the parties of the joint key, chosen before any ciphertext is made |
| `cts` | ciphertexts: message, the element of the round they come from, scale adjusted or not |
| `elems` | results of `int_mp_boot_random_element_gen()` |
| `pairs[k]` | what the two-element list that call `k` of `int_mp_boot_decrypt()` returned holds now |
| `sums` | results of `int_mp_boot_add()` |
| `IntMPBoot*` | the five calls of `R/interactive-bootstrap.R`, the list conversions of `src/pke_ckks_interactive_boot.cpp` included |

A pair is two halves: a decryption share of the ciphertext plus a mask of the
call's own, and a share of the element minus that mask.  A half keeps its role,
the calls it was added up from and whether one of them is in twice; two calls
with the same arguments have different masks, so they are different calls
(`try`).  The re-encryption takes any pair, element and ciphertext; it checks
nothing, and its result is of use when the terms cancel (`Restores`).  A pair
may be sent late, twice, to another round or never, and a call may be made again
after its pair went missing.

`RefreshTakesAll`: a refreshed ciphertext took a call of every owner, all on one
adjusted ciphertext of the same message and with the same element.
`HalvesTogether`: however sums are nested, no mask is parted from its share.
`RoundCompletes`: when every owner has made its call, the round can be finished
from any of an owner's calls, in any order, with some pairs added first, and
whatever sums the pairs were used in before.  `ImplementsRefresh`: the rounds
implement **JointRefresh**, where owners agree to refresh a ciphertext in the
round of an element, nobody takes it back, and a refresh follows the last of the
owners' consents.  A call on an adjusted ciphertext is the consent.  What this
adds to `RefreshTakesAll` is the order and the chain: consent is given for a
ciphertext that exists, and one that was refreshed needs new consents.

### JointEvalKeys

A key is (random part, set of shares).  Sums of shares of one random part and
disjoint parties are good, all others are noise.  A tag is named by the party
whose pair has it, and its keys must hold the shares of everybody up to it in
the chain (`Members`).  A caller may put a new map in place of one it has, as an
R assignment does, so two maps at a time are enough for a sum over three parties.

`FittingKeysStay`: a fitting joint key stays in use until its tag is cleared,
whatever else is generated, added or inserted and whoever joins later.
`JointKeysFit`: a tag that only whole fitting maps reached, from any mix of
generation calls, fits at every index.

### EvalKeyCheckpoint

`table` is what the session has, `disk[f]` what the file holds: nothing, `Torn`,
or a whole content, `acked[f]` what the last save that returned `TRUE` was to
write.  A save truncates its file before it looks for the keys; it may find the
file unopenable (`"unopened"`), the disk full (`"full"`), or fail when the
stream is closed (`"late"`); the process may end during it (`SaveCutShort`).
The binary archive throws on the first two.  Nobody looks at the closed stream
(`src/pke_serialization.cpp:114`), so the third is reported as `TRUE` in either
format; `lost` is the set of files it happened to.

`AckedLoadsRight`, `TablesApart`, `LoadsOnlyAdd`.  The first, for binary saves: a
file whose last save returned `TRUE` loads as what that save was to write or,
when its close failed, not at all; it never loads as an older checkpoint, as
another save's or in part, whichever saves to it and to other files failed
before or since.  That an acknowledged file always loads (`AckedIsRestorable`)
is false in both formats, see section 5.  The second: the relinearization and
automorphism tables and their files are never taken for one another, although
sum keys and rotation keys share a table.  The third: loading an old checkpoint
takes away nothing that was generated since.

`ImplementsDurable`: sessions and files implement **DurableKeys**, where a file
stands for the set of keys that its last acknowledged save was to write or for
nothing, a session holds a set of keys, and restoring a file that stands for
keys adds exactly these.  A save that is acknowledged although its close failed
is a step of its own (`Spoil`): the file then stands for nothing and is on
record as `spoilt`.  The two tables with their two names each, the truncation,
the noticed faults, the torn files and the two kinds of files have no
counterpart there: they refine `Keep`, `Break` and `Restore`.

### CiphertextOps

An R variable is a handle (`ref`) on a C++ ciphertext (`obj`), which has a value
and a number of parts.  `y <- x` shares; functional calls bind a new object;
`eval_*_in_place` change the object under every variable that shares it;
`eval_*_mutable` may rescale their operands but not change what they decrypt to.
`meant[v]` is history: what the calls of the session compute when they are read
as arithmetic on values; it becomes `Unsaid` where the caller changed a shared
ciphertext under another name or used an operand that the documentation rules
out.  `digits` is the precomputation of a hoisted rotation and `from` the
variable it was made from; a rotation takes any digits, missing and stale ones
too, and computes noise when they do not fit.  `eval_fast_rotation_ext()` gives
a ciphertext of the extended basis, which the model hands to `key_switch_down()`
at once and lets no other call take.  Without `add_first` its result may be noise
or the rotation: the repository says both (section 5), so nothing is claimed.

`MeaningKept`: a variable of two parts decrypts to what was meant.  A product that
was not relinearized has three parts or more; what decrypting one gives is left
open, as `R/methods-eval-extra.R:198-202` asks for `relinearize()` first, and the
claim is made again for the relinearized ciphertext.  `PrecomputationFits`: no
functional call makes a precomputation stale.  `OperandsUntouched`: a call that
binds a result changes the value of no other ciphertext.

The slot arithmetic is a parameter of the module; what is assumed of it
(`RingAssumption`) is what the methods with a plaintext on the left rely on:
`p - ct`, for a scalar, is computed as `-(ct - p)`.  Levels, scaling factors and the noise
budget are abstracted: an operation that the budget does not allow is an error
and a stutter.  Products and rotations of ciphertexts with more than two parts
are noise; that is the library's rule and external.

### ParameterNumbers

R numbers go through `as.integer()` (out of range: `NA`), a cpp11 `int` argument,
a cast to the field's unsigned type, and back through the getter's type and
`Rf_ScalarInteger` or a double.  `Stored` and `Read` are those compositions for
each argument name of the constructors, `ContextRead` is that of the getters of
a context, and `StoredMeta` and `ReadMeta` those of the metadata of plaintexts and
ciphertexts.  `MakePackedPlaintext`, `Encrypt`, `EvalPlain` and `Decrypted` follow
one packed slot; `MakePlaintext`, `SetPlaintext`, `EncryptPlaintext` and
`SetCiphertext` follow level, noise degree, scaling factors and slots, which an
encryption copies and the setters change in place.

The standard deviation of each scheme is stored through a cast to `float`
(`AsFloat`, a parameter: the proofs hold for any rounding).  The widths are
parameters, `Half` and `Wide`, since TLC's integers have 32 bits;
the proofs hold for 2^31 and 2^63.  One argument is given at a time because no
setter reads another's field, one metadata setter is called on each object, and
the caller lets go of what it holds before it starts with something else
(`Release`): no call relates a parameter object, a context and a plaintext's
metadata but `fhe_context()`, which makes a parameter object of its own.  Slots
are packed in contexts whose modulus is the argument given.  The range check of
the encoder, the centred decoding and which arguments a context refuses are the
library's.

`ReadsAsGiven`, `EncodesAsGiven` and `DecryptsToSlot` say what a caller reads back
of a parameter and of a slot.  `ContextAgrees`: the getters of a context, written
apart from those of the parameter objects, return the same for the same
argument.  `ValuesCarryOver`: what a metadata getter returns sets the same value
on another object; the integer scaling factor is the exception above `Half`.
`HashTells`: two objects have one `plaintext_params_hash()` exactly when their
hashed fields are the same.

### BooleanCircuits

A ciphertext is a value at a plaintext modulus (`val`, `p`) of a secret.  `means`
and `tidy` are history: the value the circuit computes on plain messages, and
whether every step used the gate with inputs and moduli the documentation asks
for, with the keys of the ciphertext's secret in the context.  A step of
`eval_sign()` is never tidy: the documentation and the tests disagree on what it
gives (section 5).
`cts` is a set: two equal records stand for two encryptions.  `EvalFunc` does what
`src/binfhe_bindings.cpp` does with a table: the power-of-two check, the
expansion to `q` entries, the conversion of each entry to an unsigned word and
the range check.  The conversion of a negative or missing entry is undefined
in C++; `wraps` chooses between the two outcomes that builds produce.  `Spread`
is the noise that the phase of a ciphertext may have.

`CircuitsDecrypt`: a tidy circuit decrypts to what it means, on any build and for
any noise within the spread, also when the context was given another secret's
keys between two steps and back, or after the last.  A gate's value and meaning
are one truth function, for what the gate computes is the library's; what can go
wrong in a circuit of gates here is the binding of arguments, secrets, moduli and
keys.  The lookup tables are translated: the value goes through the expansion,
the meaning through the table as given.
`TablesInRange`: no table with an entry outside Z_p is used, as long as its
entries are whole numbers that do not wrap and it is no longer than `q`.

`eval_floor()`, the AND4, OR4, CMUX, XOR_FAST and XNOR_FAST gates, output forms
and encryption at a large modulus are left out.

## 4. The runs

Every run is exhaustive for its constants.  Numbers are distinct states.

| run | instance | states | what it shows |
|---|---|---|---|
| `registry` | 2 secrets, 2 tags, 2 indices (one of them a sum index), 2 map objects, scopes 2 deep; fair scope exits | 238,248 | type correctness, the five safety properties of the registry, `ImplementsTable` and `ScopesEndClean`. Two tags are needed to insert one map under both, two objects to have a registered map and a copy, two indices for a merge that adds and one that does not, two scopes for nesting. With three objects the state space is above what a run may take. No symmetry is used, as it is unsound for liveness; the `VIEW` tells states apart by what calls can find: it leaves out the addresses of the two map objects and what an object held last that nothing refers to any more |
| `threshold` | 3 parties, 2 ciphertexts, 1 way of sharing, 3 keys, weight 2; `MaxExtent`: ciphertexts and parties, and ciphertexts and partials of a fusion, add up to 4 at most; secrets are shared additively, while there is one ciphertext (`MaxShared`); recovery with other parameters than a secret was shared with is covered by the theorem `OpeningTakesAll`, not by this run | 376,966 | `OpenedNeedsAll`, `AnyLeadOpens`, `ImplementsJoint`. Three parties are the least for a chain that differs from the star of the recipe, and take three partials; two parties have two ciphertexts, for the list form of partial decryption and partials of the wrong ciphertext; weight 2 lets a party be added twice |
| `threshold_recipe` | 3 parties that follow `R/multiparty.R:13-14` | - | violation, see section 5 |
| `interactive_bootstrap` | up to 3 owners, 1 message, 2 elements, 2 tries, 4 calls, 2 sums; `MaxExtent`: owners and elements add up to 4 at most | 148,842 | `RefreshTakesAll`, `HalvesTogether`, `RoundCompletes`, `ImplementsRefresh`. Three owners let pairs be added in parts; two elements make two rounds to mix; four calls are a whole round of either size with a call made again, or two rounds of two owners; two sums nest |
| `checkpoint_binary` | 2 tags, 2 rotation indices and a relinearization key, 2 files, binary, all three faults | 52,453 | `AckedLoadsRight`, `TablesApart`, `LoadsOnlyAdd`, `ImplementsDurable`. Two files: a file of one table loaded as the other, an old one over a newer session. The `VIEW` leaves out what a save was to write whose close failed: no step and no property of this run reads it |
| `checkpoint_json` | 1 tag, 1 index, 1 JSON file, faults `unopened` and `full` | - | violation, see section 5 |
| `joint_keys` | up to 3 parties, 2 indices, 2 generation calls, 2 maps; `MaxExtent`: key pairs, indices in use and generation calls add up to 5 at most | 269,515 | `JointKeysFit`, `FittingKeysStay`. The bound lets each of a third party, a second index (partial maps) and a second call (shares that do not add up) occur, one at a time; all at once is out of reach |
| `joint_recipe` | 2 parties, the recipe of `R/eval-key-map.R:61-63` | - | violation, see section 5 |
| `ciphertext_ops` | 2 variables, 3 objects, 2 slots modulo 3, up to 4 parts | 7,886 | `MeaningKept`, `PrecomputationFits`, `OperandsUntouched`. Two variables share or do not; the third object is for a result. Arithmetic modulo 3 tells `x`, `-x` and `0` apart; 4 parts are more than the relinearization degree covers |
| `parameter_numbers` | 3- and 5-bit integers, floats with 2 significant bits, 7 numbers around NA, the extremes and beyond | 17,253 | `ReadsAsGiven`, `EncodesAsGiven`, `DecryptsToSlot`, `ContextAgrees`, `ValuesCarryOver`, `HashTells` for every argument name of every constructor, every context getter and every metadata setter, before and after the encryption |
| `modulus_doc` | the same | - | violation, see section 5 |
| `boolean_circuits` | 2 secrets, moduli 2, 4, 6, q = 8, words of 32 values, 3 ciphertexts, 10 tables | 75,642 | `CircuitsDecrypt`, `TablesInRange`. The tables include missing, negative, too large and wrapping entries, a length that is no power of two and one beyond q; three ciphertexts are the inputs of the widest gate and two of a gate with its result |

`CHECK_DEADLOCK FALSE` is set for the threshold runs and `joint_recipe` only: a
session ends when every key, ciphertext and partial that the bounds allow was
made.  The other systems can always take a step.

Every property of a passing run has a mutant in `PROJECT.json`: a plausible bug
in the code (a swapped operand, a dropped check, an object emptied in place, a
lost argument) under which TLC finds it violated.

## 5. What the runs found

* `threshold_recipe`: `R/multiparty.R:13-14` tells later parties to use the
  *lead's* public key.  With three parties no key then holds all the secrets;
  the code and its tests need the previous party's key.
* `checkpoint_json`: `serialize_eval_keys(format = "json")` returns `TRUE` when
  the file could not be opened or was only partly written: the binding checks
  neither, and unlike the binary archive the JSON one does not throw.  A failing
  close is passed over in either format (`src/pke_serialization.cpp:114`), binary
  included; that is why `checkpoint_binary` checks `AckedLoadsRight` and not
  `AckedIsRestorable`, which would be violated there too.
* `joint_recipe`: `R/eval-key-map.R:61-63` says that the multi-party flow calls
  `eval_sum_key_gen()` on each party's share.  The last party's call fills the
  joint tag with keys of its own, after which `insert_eval_sum_key()` of the joint
  map adds nothing.
* `modulus_doc`: `get_plaintext_modulus()` on a parameter object cannot return a
  modulus beyond R's integers as a double, as `R/params-getters.R:47-49` says.

Seen while modelling, without a run of their own yet:

* `eval_func()` refuses a table with "LUT value out of range; f must output in
  Z_p" (`src/binfhe_bindings.cpp:199`), but an `NA` or negative entry on a build whose
  conversion clamps, an entry whose product with the scale wraps, and a table
  longer than `q` get past that check.  `TablesInRange` therefore has the
  precondition `WholeTable`.
* `R/binfhe.R:245-246` says `eval_sign()` gives 0 for the upper half of [0, Q) and
  1 otherwise; `inst/tinytest/test_binfhe_eval_sign.R:28-36` expects the opposite.
  The model follows the test for the value and claims nothing for the circuit.
* `R/methods-eval-extra.R:198-202` says that a product without relinearization
  needs `relinearize()` before it can be decrypted again.  The library decrypts
  three parts as well when its relinearization degree allows it; the model leaves
  the value of more than two parts open.
* `inst/tinytest/test_ckks_boot_rotation.R:104-112` calls
  `eval_fast_rotation_ext()` with `add_first = FALSE` the ordinary rotation, while
  `R/methods-eval.R:201-205` has the argument fold the first digit into the result,
  which lacks it otherwise.  The model allows both and claims neither.
* `standard_deviation` is stored through a cast to `float`
  (`src/pke_ccparams_setters.cpp:41-45`), so its getter returns the nearest float and
  not the argument; `inst/tinytest/test_params_getters.R:46` has a tolerance for it.
  `ReadsAsGiven` says so (`AsFloat`).
* `R/plaintext-accessors.R:138-139` gives the lower bound of a plaintext as
  `-floor(t / 2)`, while `inst/tinytest/test_plaintext_accessors.R:29` expects
  `-floor(t / 2) - 1` for the odd modulus 65537.  The model has what the test
  expects; `DecryptsToSlot` holds with either.

## 6. Fairness

One assumption: `FairSpec` of EvalKeyRegistry has weak fairness of `ExitScope`.
`with_fhe_context()` clears in an `on.exit()` handler (`R/serialization.R:134-137`),
which R runs when the expression of the scope returns and when it fails, so an
open scope ends, given that its expression does.  The handler runs in the process
that opened the scope and no call disables it, so weak fairness is enough.
`ScopesEndClean` needs it: without it a scope may stay open for ever.  What it adds
to the safety properties is that an exit reaches both tables and every tag, those
with a map that R still holds included.

Every other action of every model is a call that a user of the package may or
may not make, or a fault; the code schedules none of them, so any further
fairness would be invented.

## 7. What is proved

For every value of the constants that meets the named assumptions of a module,
TLAPS checks the theorems below.  Each module has one inductive invariant `IInv`.

| module | theorems | why `IInv` is stronger than the properties |
|---|---|---|
| `EvalKeyRegistry_proofs` | `TypeCorrect`, `OnlyOwnKeys`, `LostSecretsKeyless`, `HeldMapsKeepEntries`, `SnapshotsStayFrozen`, `NoReplacement`, `Implementation` | a merge reaches every tag that shares the object, so sharing tags must be on record (`SharingRecorded`); an insertion with an empty tag uses the tag of a key in the map, so the makers of every map carry one (`MakersTagged`), which typing needs already. The action properties need that a used map changes only by a merge (`UsedMapsMerge`) and that no snapshot is registered (`SnapshotsUnregistered`). `Implementation` needs two facts more (`TInv`): a registered object has keys (`RegisteredHaveKeys`), so that the code's test for an empty map is the abstract test for an unused tag, and a tag that is still new has neither kind of key (`FreshTagsUnused`) |
| `ThresholdDecryption_proofs` | `TypeCorrect`, `OpeningTakesAll`, `EveryLeadOpens`, `Implementation`, `RecipeLeavesPartiesOut`, `ChainTakesAllIn` | a partial was made by a party on record for its ciphertext (`PartialsOnRecord`), and the secrets in a key are those of the parties that joined it, one at least (`KeysOwned`). `EveryLeadOpens` counts: an ordering of the owners has each of them at one place, so each secret occurs as often as in a chained key. `Implementation` maps every step to a step of JointDecryption or a stutter. `RecipeLeavesPartiesOut` has an invariant of its own: under the recipe a key has the lead and at most one other owner (`KeyOfTwo`); so has `ChainTakesAllIn`: a key holds once the secret of each party that joined it, and one of them was joined by all so far (`ChainInv`) |
| `InteractiveBootstrap_proofs` | `TypeCorrect`, `PairsStayWhole`, `RefreshingTakesAll`, `RoundsFinish`, `Implementation` | no later call changes what a call returned (`AsReturned`), what is in hand is of calls that were made (part of `HalvesTogether`), and there are at least two owners (`Shared`). `RoundsFinish` then counts one call of each owner in a sum along any ordering and any split. `Implementation` takes from `HalvesTogether` that what cancels in a sum are calls that were made, each a consent |
| `JointEvalKeys_proofs` | `TypeCorrect`, `WholeMapsFit`, `FittingStays`, `RecipeKeepsJointKeyOut` | a tag that nothing reached has no keys (`Untouched`). For the recipe the invariant is that a tag holds its owner's keys or none (`OwnOrNone`) |
| `EvalKeyCheckpoint_proofs` | `TypeCorrect`, `TablesStayApart`, `AcknowledgedSavesRestore`, `LoadsTakeNothing`, `Implementation` | what is loaded was written from a table, so whole files fit their table (`FilesFit`). `AcknowledgedSavesRestore` (of `AckedLoadsRight`, failing closes included) and `Implementation` assume `OnlyBinary`, that no save is in JSON: with JSON both are false |
| `CiphertextOps_proofs` | `TypeCorrect`, `ValuesAsWritten`, `OperandsStay`, `DigitsStayFit` | `MeaningKept` says nothing of ciphertexts with more than two parts, but they become ordinary ones by `relinearize()`: their values have to be right as well (`Tracked`). It needs `PrecomputationFits` too, as a hoisted rotation is meant only if the digits fit. `OperandsStay` is an action property: typing suffices |
| `ParameterNumbers_proofs` | `TypeCorrect`, `GettersReadArguments`, `NoNAEncoded`, `SlotsReadBack`, `ContextsAgree`, `MetadataCarriesOver`, `HashesTell`, `LargeModulusLost` | the fields, contexts and metadata were made by the constructors and setters (`Made`), so each field is in the range its conversion gives |
| `BooleanCircuits_proofs` | `TypeCorrect`, `CircuitsCorrect`, `TablesChecked` | a tidy ciphertext has its meaning and is in range (`Sound`). Lookup rests on division facts and `QAssumption`, that `q` is a power of two |

The four `Implementation` theorems are the refinements of JointDecryption,
KeyTable, JointRefresh and DurableKeys: initial states map to initial states and
every step to a step or a stutter.  `ImplementsDurable` rests on
`AcknowledgedSavesRestore`: what an acknowledged file holds is what it stands for,
unless it is on record as spoilt.

Three theorems are the general forms of findings of section 5; TLC shows one
counterexample, they show that there is no way around it.  Under the recipe of
`R/multiparty.R:13-14`, three parties or more never get a key owned by all
(`RecipeLeavesPartiesOut`), while the chain of
`inst/tinytest/test_multiparty_5p.R:21-25` always has one (`ChainTakesAllIn`); under that of `R/eval-key-map.R:61-63` a tag of
several members never gets a fitting key, also after the whole sum was inserted
(`RecipeKeepsJointKeyOut`); and every plaintext modulus beyond R's integers is
stored as one and the same value and reads `NA` (`LargeModulusLost`).

Assumptions are the `ASSUME`s of the modules: sentinels differ from what they
stand beside, bounds are natural numbers, and the facts of the arithmetic
named above.  TLC evaluates them in every run.

## 8. What is only model-checked

`ScopesEndClean`, as liveness under fairness and `ENABLED` are out of the prover's
reach, and the properties of the violation runs.  Inductions over data do not
arise, and no module has a RECURSIVE operator.

## 9. What is not modelled, and what is next

Whole components.  Handles and their pointer tags are planned (section 2, item
11).  The CKKS arithmetic, its tolerance and its approximations are real analysis
and outside TLC.  The thread cap, start-up hooks, console streams and
enumerations have no behaviour beyond one call; `R/cpp11.R` and `src/cpp11.cpp` are
generated.  The library itself is not in the repository: definitions that stand
for it are external in `PROJECT.json` and follow what `src/` and the tests rely on.

Open in the modelled parts:

* Registries: `insert_eval_mult_key()`, the relinearization getters and
  `set_key_tag()`; their states times those of the automorphism table are above
  what a run may take.  Joint relinearization keys, as said in section 2.
* Interactive bootstrapping: the two-party `int_boot_*()` calls.  One party must
  give the other a ciphertext without its first polynomial, and the library calls
  that make one are not bound (`inst/tinytest/test_interactive_bootstrap.R:7-18`).
* Ciphertexts: other calls on a ciphertext of the extended basis, the
  bootstrapping correction factor, levels and scales.
* Contexts: `enable_feature()` and the parameters that the library chooses itself.
* Plaintexts: real, complex, coefficient and string packing, lengths, and the CKKS
  data type.
* Boolean circuits: the gates named in section 3, output forms and encryption at
  a large modulus.

One hazard has no property: entries of a lookup table that are `NA` or negative
have an undefined conversion (`src/binfhe_bindings.cpp:196`), and what a table that
gets past the check decrypts to is the build's.  `wraps` ranges over both outcomes,
and `TablesInRange` says which tables are safe on either.  `fhe_ckks_tolerance()` is a
formula over the library's real arithmetic and has no behaviour to check.
