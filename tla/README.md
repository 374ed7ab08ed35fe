# A specification of mhda

mhda (C++17) parses, builds, validates and prints multi-chain HD address
descriptors: URNs such as `urn:mhda:nt:evm:ci:1:dt:bip44:dp:m/44'/60'/0'/0/0`.
It is a sequential library of value classes. Nothing in it runs concurrently,
keeps files or waits, so what can go wrong lies elsewhere: in sequences of legal
calls on one mutable object, in calls that throw half way, in the same fact held
twice, and in a printer and a parser that are written apart and must agree,
because two URNs for one key, or one URN for two keys, lose money.

Paths below are relative to the repository; the library is in `src/` and
`include/mhda/`, the prose specification in `SPEC.md`.

## 1. Inventory

| component | state | operations | hard part | what makes it correct |
|---|---|---|---|---|
| derivation path (`derivation_path.cpp`, `.hpp`) | type, five shortcut fields, `has_index`, `levels` | default and five-argument constructor, `from_levels`, `parse`, `parse_path`, `set_type`, `str` | the path is held twice; exceptions, `bad_alloc` included, in the middle of a parse; reuse of an object under another type | the two copies agree; nothing old survives; a failure changes nothing; no level names another level's key |
| path grammar (same file) | none | `parse_levels`, a validator per shape, `validate_derivation_path` | literals and variable levels differ in leading zeros; 2^31 bound; charge of CIP types | accepts exactly the documented templates |
| NSS parser (`nss_parser.cpp`) | none | `parse_nss_map` | pairs in any order, unknown pairs skipped, wrong case, duplicates, dangling tokens | no component is lost or wins by its place |
| chain (`chain.cpp`, `.hpp`) | network, id, optional coin | constructor, setters, `from_nss`, `from_key`, `key` | the id goes verbatim into keys and URNs; keys compare as strings | one key text per chain, which reads back |
| address (`address.cpp`, `.hpp`) | chain, optional path, algorithm, format, four free-form fields | constructor, nine setters, mutable `get_chain()` and `path()`, `nss`, `marshal_text`, `unmarshal_text` | states between two calls (type without path, network without id); `set_derivation` all or nothing; printing conditional on eleven fields | the URN names this address or nothing |
| URN parser (`parser.cpp`) | none | `parse_urn`, `parse_urn_strict`, `parse_nss` | trimming around the r/q/f components; order of error checks | accepted texts are canonical after one parse and lose nothing |
| compatibility matrix, `address::validate` (`compatibility.cpp`) | constant table | lookups, strict validation | default resolution; derivation types whose grammars overlap; rows that bind curves and scripts | one name per key; short and long form agree; every listed scheme is usable |
| name registries (`network_type.cpp`, `algorithm.cpp`, `format.cpp`, `derivation_type.cpp`) | constant sets | exact lookup, `*_from_string` | - | - |
| text and number helpers (`detail.*`) | none | trims, case folding, byte set, `split`, `strip_rqf`, `quote`, `parse_uint32`, `parse_uint31_dec`, `parse_segment` | overflow test before the multiplication, for two bases and three bounds; a message that shows part of a hostile text | exactly the numbers in range are taken; a message shows the offending piece on one line and nothing else |
| hashing (`hash.cpp`) | two blocks of tail | SHA-1 and SHA-256 | padding at 55, 56 and 64 bytes | what is compressed is the padded message of the standard |
| example tool (`examples/by_key.cpp`) | none | parse, then validate, into one exit code | it takes every refusal after the parse for an unusual combination | only the matrix can refuse what was parsed |
| errors (`error.cpp`) | none | codes and messages | - | - |

The components call each other from the bottom of this table upwards in one
direction: the parser splits an NSS, builds a chain, and drives the setters of a
fresh address; the address parses paths; a path renders itself and parses its
own text again in two of its constructors. The only shared mutable state is
what `get_chain()` and `path()` hand out by reference.

`PROJECT.json` lists the hazards with their lines and the properties that watch
them.

## 2. Modules

```
PathGrammar ──┬── PathTemplates ── HDPath                     (abstract)
              ├── PathObject ───── DerivationPath ── DerivationPathProofs
              │        │                                └─ PathLemmas
              └── NssText ── ChainIdentity ──┬── Chain ── ChainProofs
                       │                     │             └─ ValueLemmas
                       │                     └── Compatibility
                       └────────── AddressValue (with PathObject, Compatibility)
                                     └── Address ── AddressProofs
                                                     └─ ValueLemmas
                                                          └─ PathLemmas
Descriptor (abstract, implemented by Address)
Bytes ──┬── NssReader (with NssText) ── NssReaderProofs
        └── Digits (with PathGrammar) ── DigitsProofs
HashPadding ── HashPaddingProofs
MCDerivationPath, MCChain, MCAddress, MCNssReader, MCDigits,
MCHashPadding: instances for TLC
```

* **PathGrammar** is the recogniser. A path text is kept as the recogniser sees
  it: what stands before the first `/`, and for each segment whether its body is
  decimal, its value, whether it has a leading zero, and its marker. Integer
  width is kept through `IndexLimit` (2^31 in the code): a level index is below
  it, a `uint32_t` below twice it.
* **PathTemplates** writes the table of SPEC.md section 3 as data, without any of
  the validators, to be compared with them.
* **PathObject** holds the seven fields and the pure functions on them:
  `fixed_prefix`, `rebuild_levels`, `populate_shortcuts_from_levels`, the branches
  of `parse_fresh`, and `str`.
* **DerivationPath** is one object and the client's calls. A call that parses
  takes three steps, parse, rebuild, commit, on a second object `fresh`, because
  `bad_alloc` can end it at either allocation; `dp` is what the caller holds.
* **HDPath** is what the class promises: a scheme and either no path or a whole
  path of it, replaced in one step. `DerivationPath` implements it with
  `type <- dp.type, levels <- dp.levels`.
* **NssText** makes an NSS a sequence of tokens, the texts between its colons. A
  token keeps its case-folded word (or number, or path), whether it has an
  uppercase letter, whether whitespace follows it, and whether a byte outside the
  NSS set is in it, `:` and the cutting `?`/`#` told apart. `Field` says what
  printing does: a colon inside a value starts a token of its own.
* **ChainIdentity** has the chain's setters, `ChainKey`, `BuildChain`, `FromNss`,
  `FromKey`, as functions to an error code and the chain left; **Chain** is the
  object.
* **Compatibility** is the matrix, one record per network, and its lookups.
* **AddressValue** has the address's setters, `Nss`, the URN parser, `Validate`
  and, of the example tool, `Describe`, again as functions. `Intact` says what an
  object of the class always is: a clean chain, at most one path, that path empty
  or one the parser makes, free-form values trimmed and in the NSS set.
  **Address** is the object, with the steps a client can take behind its back
  through `get_chain()` and `path()`.
* **Descriptor** is what the class promises: a set of named components. An edit
  is named for the component it is meant for, or for type and path together, and
  changes no other; a construction or a parse brings a new set, a parse one with
  a whole identity; a failure brings none. `Address` implements it with
  `doc <- Doc(addr), last <- LastCall`, whatever comes through `get_chain()` and
  `path()`: its variable `call` keeps the component the last call was meant for,
  so that a setter which stores into its neighbour's field is no step of it.
* **Bytes** has the helpers of `detail` on byte strings: the trims, case folding,
  the NSS byte set, `StripRqfBytes`, `Quote`, the prefix.
* **NssReader** is `parse_urn` and `parse_nss` up to the map of components, byte
  by byte, and `parse_nss_map` pair by pair, with the text its error message
  quotes. It states that the tokens of NssText are a faithful reading of the
  bytes: `TokensOf` takes the same text apart by the definition of a token, and
  `AgreesWithTokens` compares the loop's result with `NssOk` and `Components`,
  which the chain and address models use.
* **Digits** is `parse_uint32`, `parse_uint31_dec` and `parse_segment`, one digit
  per step, with an accumulator that wraps at `AccLimit` (2^64 in the code). A
  ghost, `total`, holds what was read without a width. `SegmentOf` ties it to the
  path models: the same text is a segment of PathGrammar.
* **HashPadding** is the driver that sha1 and sha256 share: full blocks, then a
  tail of one or two, with the code's own sizes. A compressed block is appended
  to a sequence, which is all the digest depends on.

A definition called a mutant in a comment (`SetTypeKeepingPath`, `FromKeyLenient`
...) is not used by the models. Substituted for the definition after it, it
is a mistake the code could have made, and the property it is listed with in
`PROJECT.json` then fails.

### What the error-code functions assume

The functions of ChainIdentity and AddressValue take a call as one step. That is
faithful because no client code runs inside a call and every setter ends in one
assignment; only `derivation_path` interleaves writes with operations that
throw, so only its machine is finer. `set_derivation_path` and
`set_derivation_type` attach an empty path object first: the model keeps that
attachment when the call throws, as the code does (and when a root address is
given the empty path, although `address.hpp:81-82` calls that a no-op).

## 3. What TLC checks

Every run finishes in under two minutes on two workers.

| run | module, configuration | question | bounds |
|---|---|---|---|
| `path_object` | MCDerivationPath, `DerivationPath_object.cfg` | Can any history of calls and failures leave a path that is stale, inconsistent, aliased or not what was asked for? Do the validators accept exactly the templates? Does the machine implement HDPath? | one type of each shape, an unregistered and no type; accounts, indexes and charges on both sides of `IndexLimit` and of 256; 11 level sequences, 10 texts; as first call, every text one segment away from a canonical path, under all 12 types; 65 226 states |
| `chain_object` | MCChain, `Chain_object.cfg` | Can a history of setters and parses make a chain whose key does not read back, a second text for a key, a pair that wins by its place or is lost by its case? | clean and dirty ids, networks in both cases; as first call, up to three pairs of 19, with and without a dangling token, 1 500 texts, to both parsers; 3 802 states |
| `address_object` | MCAddress, `Address_object.cfg` | Can a history of setters and of changes behind the address's back make a URN that names something else, or touch a component the call does not name? Does the object implement Descriptor? | one network, one id, paths and types of three shapes, at most one valid value per free-form field and a dirty one; as first call, a construction; 36 373 states |
| `address_once` | MCAddress, `Address_once.cfg` | Is an accepted URN canonical after one parse, with no component lost or altered? Does strict mode leave one name per key, treat defaults alike, accept every scheme it lists, and refuse a parsed URN for the matrix only? | identity and up to two of 22 pairs in every place: 900 URNs, each to the three parsers; all 14 networks, 7 algorithms, 13 formats, 21 paths, each constructed; 37 884 states |
| `nss_reader` | MCNssReader, `NssReader.cfg` | Do bytes and tokens agree? Does the loop return, and what does a message show? | every sequence of up to three of 11 pieces (four after `nt`, six after an identity), with right, mis-cased and wrong prefix, leading and trailing whitespace; 93 603 states |
| `digits` | MCDigits, `Digits.cfg` | Is a number taken exactly when it is in range, with its value, and a segment read as the path models say? | numbers up to 130 and within 3 of each bound, its multiples by both bases and its quotients, in both bases and cases, padded, marked and misspelt; `AccLimit` 8192; 75 523 states |
| `hash_padding` | MCHashPadding, `HashPadding.cfg` | Is what is compressed the padded message? | sizes 0 to 200, 247, 248, 255, 256; the code's constants; 873 states |
| `half_marshalled`, `urn_path_case`, `sui_types` | `Address_marshal.cfg`, `Address_grammar.cfg`, `Address_sui.cfg` | *violated*: see findings | as the address runs |
| `fixed_coin`, `chain_case` | `DerivationPath_fixedcoin.cfg`, `Chain_case.cfg` | *violated*: see findings | as `path_object`, `chain_object` |

`IndexLimit = 2048` is the smallest power of two above the purpose 1852, so every
literal of the grammar is an index, and `2 * IndexLimit` bounds a `uint32_t`: the
overflow of an index into the hardened bit happens at the same place as in the
code, one bit below the width. `AccLimit = 8192` is again a power of two, hence a
multiple of 16 and not of 10, like 2^64: the overflow test meets a divisor that
divides and one that does not. `MaxDepth` stands for the 255 levels of a SLIP-10
path; 3 (5 for addresses) lets a path be one level too deep. Properties of a text
look at one segment, one pair or two pairs at a time, so three pairs, or a path
with one changed segment, contain a smallest counterexample of each kind.
Algorithms, networks, formats and types are never sampled in `address_once`: the
matrix is checked whole.

A parser and a constructor replace the whole object when they succeed and leave
it alone when they fail. In the histories the large sets of texts and
constructions are therefore offered to the first call only (`HistorySpec` of
MCDerivationPath, MCChain and MCAddress): later on they would lead to states
that a first call reaches as well.

`CHECK_DEADLOCK FALSE` stands in the runs whose behaviours end by design: one
call per behaviour in `address_once` (`OneCallSpec`), and one call that returns in
`nss_reader`, `digits` and `hash_padding`.

Fairness. Nothing in this library waits, and a call runs on its caller's thread
until it returns, so `NssReader`, whose steps are turns of one loop, states
`WF_vars(Next)`, and `Returns` says that the loop ends on every text: it moves
its index itself and leaves a turn early for a pair it skips. The loops behind
`Digits` (over the bytes of a view) and `HashPadding` (over full blocks, counted
in its header) end by their shape, so nothing is asked there. In the other
models a step is a whole call, or the client's choice to make one, and no client
is obliged to: they state no fairness.

### Findings

Five runs check a sentence of the documents that the code does not keep:

1. `half_marshalled`: with a network but no chain id (set through `get_chain()`),
   `marshal_text()` and `validate()` succeed and the URN `urn:mhda:nt:evm:ci:`
   does not parse (`address.hpp:128-129`). `MarshalledUrnParses` shows it is the
   only such case.
2. `fixed_coin`: the constructor silently replaces a coin that contradicts
   `cip11`, `cip1852` or `zip32` (`derivation_path.hpp:56-58` says such values
   throw).
3. `chain_case`: a chain key with a mis-cased component name fails with
   `invalid_nss`, not `invalid_chain_key` (`SPEC.md:531-535`).
4. `urn_path_case`: in a URN, and only there, `M/44'/...` is accepted
   (`SPEC.md:384`).
5. `sui_types`: `bip44` on Sui is refused in strict mode (`SPEC.md:575-577`, which
   contradicts section 2.1).

## 4. What is proved

Eight modules hold what TLAPS checks: `PathLemmas` and `ValueLemmas` (chains and
addresses) are about the functions on values, `DerivationPathProofs`,
`ChainProofs` and `AddressProofs` about the objects, `NssReaderProofs`,
`DigitsProofs` and `HashPaddingProofs` about the loops. The theorems hold for
every `IndexLimit > 1852`, every `MaxDepth > 0`, every `AccLimit > 2 *
IndexLimit`, hence for the code's 2^31, 255 and 2^64, and for all sets of words,
arguments, texts and sizes.

The assumptions are named in the modules that declare the constants, and TLC
evaluates each of them. They say that the names the code knows are words, and
that arguments have the types the C++ signatures give them: a `chain` argument is
a chain some sequence of setters can make (`Clean`), a `derivation_path` argument
is an object of its class (`Sound`, which `NothingStale` proves of every reachable
one), and a token is the reading of some text (`ProperToken`: the empty token has
no number, path or case, and a path token has a path).

### The path

The inductive invariant of `DerivationPath` is

    IInv == TypeOK /\ Whole(dp) /\ Underway /\ WantIsBuilt

*Whole* is `NoStaleState` for the caller's object. It is not inductive alone: the
object a commit installs is built over three steps, so *Underway* says at each
`pc` what `fresh` holds (the empty path of the call's type, the shortcuts of the
accepted text, the parsed path), and *WantIsBuilt* relates the levels a checked
constructor must produce to the text it is reparsing. From it follow `TypeOK`,
`NoStaleState`, `NoKeyAliasing`, `LevelsMatchText`, `FailureKeepsPath`,
`CommittedAsAsked`, and the refinement of `HDPath` (`Implementation`).

The argument rests on lemmas about the pure operators: what a validator accepts
has the level shape of its type (`AcceptedIsShaped`), a shaped level sequence is
accepted when spelled (`ShapedIsAccepted`), printing and parsing levels are
inverse (`FormatRoundTrip`), and therefore a parsed path is rendered to a text
that parses to the same path (`StoredRoundTrip`).

`GrammarAsDocumented` is about the validators, not about a history: for every
text and every type, `Accepts` and the table of templates decide alike.
`LevelsSpelled` relates each test a validator makes of one level to the kind of
template level it stands for (literal, hardened, soft, binary, leaf), and
`PathSpelled` the tests of all levels to a template; the families with a variable
number of levels unfold to templates of each length (`TemplatesUnfolded`,
`GrammarIsTemplates`).

### The chain

`TypeOK` of `Chain` is inductive as it stands, because it says that the id is
clean: every function that makes a chain returns a *Result*, a code and a *Clean*
chain, and one lemma per setter and parser proves it. `KeyReadsBack` follows from
`TypeOK` alone by `FromKeyOfKey`, which is the whole way from `key()` to
`from_key()`: the key is four tokens (`KeyTokens`), trimming leaves them alone
(`KeyIsTrimmed`), they are an accepted NSS whose two components are the network
and the id (`KeyIsNss`), and building a chain from these gives the same chain.
Without the clean id the first of these lemmas fails, since `Field` splits the
value. `FailureKeepsChain` comes from the same lemma about a step
(`StepIsClean`), and `OneKeyPerChain` from `AcceptedIsKey`.

`OrderSaysNothing` and `CaseHidesNothing` compare the chain held with another
reading of the text it came from, which `TypeOK` knows nothing of. They use

    ReadInv == TypeOK /\ SameAsNss

where *SameAsNss* keeps the text and says that `from_nss` of it gives the chain.
An accepted text has each known key once, so its component map is determined by
its set of pairs (`SamePairs`). Reversing the text maps pair `i` to its *Mirror*
with the same key and value, and folding the case of the keys changes no known
one, because an accepted text has no mis-cased known key; the map, and with it
the chain, stays.

### The address

`TypeOK` is again inductive, because it is `Intact(addr)` with the types of the
rest: one lemma per setter (`SetDerivationResult`, `SetFreeFormResult`, ...) says
that the setter returns an intact address, which part it reaches, when it
succeeds and that it changes nothing when it fails. The steps a client takes
through `get_chain()` and `path()` are covered by the chain and path lemmas. From
these follow

* `FailuresKeepUrn`. A failure leaves the address, or attaches an empty path to
  one without (`set_derivation_path`), and that is not printed;
* `DescriptorIsImplemented`, the refinement of `Descriptor`: initial state, then
  every step. `EditedParts` says from the part a setter reaches, and the name of
  the call, that no other component differs (`Edited`), and that a path still has
  its type; `ParseKeepsType` and `PathKeepsType` say it of the calls on `path()`.

That a printed URN is read back is one argument for four properties. `NssReads`
says that the components of `Nss(a)` are exactly what nss() means to write: the
text grows by one pair at a time, a new key and a storable value, and each step
keeps the text an accepted one and adds one component to its map (`AppendPair`,
`ReadsMore`). With this, `WholeUrnParses` runs the parser's setters over the
components of an intact address and finds each its old value, or refuses a type
without a path (`DerivationWritten`); `HalfChainIsRefused` is the case of a
chain without a network or an id. `UrnReads` puts the cases together, and
`MarshalledUrnsParse`, `HalfBuiltIsRefused`, `NssKeepsChain` follow from
`TypeOK` and it.

Properties of a parsed address need more than `TypeOK`:

    ParsedInv == TypeOK /\ SameAsUrn

*SameAsUrn* says that the address is what `parse_urn` makes of the kept text. What
`parse_urn` returns has a network, an id, and a path whenever it has a type
(*Parsed*), which gives `ParsedRoundTrips` and `OnlyMatrixIsLeft`. For
`NothingIsDropped`, `ReadIsWritten` says key by key that a component is written
exactly when it was read, since the parser stores nothing that nss() takes for
unset, and `SaidAsRead` that it then says what was read (`Said`): the same name or
number (`ChainSaid`), the same levels, which lowering the text does not touch
(`LowerKeepsLevels`) and `str()` spells again (`PathSaid`), and any other value token
for token.

`DefaultsMayBeSpelledOut` is resolution being idempotent. `KeysHaveOneSpelling` is
a statement about the matrix: two derivation types of one network are of
Bitcoin's kind, or are the two of Cosmos, or are bound to different curves
(`MatrixRows`, the only place where the rows are taken apart). No levels fit
two types of Bitcoin's kind (`ShapesDiffer`); a path of both Cosmos types has coin
118 (`CosmosCoin`), which strict mode refuses under `bip44`; and one algorithm
cannot be two curves. The levels of the two readings are the same because one
text spells them (`OneTextTwoTypes`).

`SchemesAreUsable` is about the rows too, for every path and not only those of a
run, but for those strict mode refuses on purpose (`Derivable`): soft `slip10`
paths, which Ed25519 cannot derive, and the `bip44` spelling of a Cosmos path of
coin 118, whose name is `cip11`. `TypeServed` names, for each derivation type a
row lists, an algorithm that the row allows, that the type is not bound away
from, and that is Ed25519 only where the type has hardened paths (`slip10`) or
may derive soft ones with it (`cip1852`); `DefaultFormatFits` says that the
row's default format is none, or one its formats and the type's scripts contain.
With these, `Compatible` holds of the address built from the path.

### The reading of bytes

The other models take a text as its tokens. `ReadingAgrees` is what entitles them
to it: on every text, in every entry, the loop over the bytes and the token model
come to the same verdict and the same components. The invariant is

    ReadInv ==
      /\ pc \in {"map", "loop"} => NssPassed
      /\ pc = "loop" => PartsRead
      /\ pc \in {"enter", "map"} => out = <<>>
      /\ AgreesWithTokens

*NssPassed* is what `Enter` establishes: the tokens of the caller's text, stripped
and trimmed as tokens, are those of the bytes that were stripped and trimmed as
bytes, or neither are accepted. Its lemmas go through the operations in turn.
`Split`, which scans, returns the pieces between the colons, which `TokensOf`
counts. A trim of the bytes changes the last token only (`TrimTokens`); a cut at
the first `?` or `#` removes the tokens after it (`StripTokens`, `KeptAlike`); and
the prefix consumes the same bytes whether the text before it was trimmed at its
end or not. Only one side may be refused with another piece than the other, so
the lemmas conclude *OkAlike*: the tokens are equal, or both are refused.

*PartsRead* is the loop's invariant: a text without marks has the tokens of its
parts (`TokensFor`), there is an even number of them, and the pairs before `i` are
acceptable and give exactly the map `out` (`PairsRead`). One pair more is accepted
by the loop exactly when the token model accepts it, because what the loop tests
of a key or a value is what the token records of it: a token with no byte outside
the set is a clean piece, a known word with no uppercase letter is a component's
name. At the end all pairs are read, and at a refusal the one pair refutes `NssOk`
(`RefusalAgrees`).

`QuoteReadsBack` is about `quote` alone and every byte string: the text is
printable ASCII, and `Unquote`, a scan with four states, reads it back. Each
escape leads the scan from its plain state back to it with the byte appended,
which is an induction over the bytes (`PlaceInduction`). `ShownReadsBack` adds
that the piece quoted is one of `parts`. `TypeCorrect` needs in addition that the
index is 1 until the loop begins.

### The digit loop

`OverflowIsExact` says what the test of `parse_in_base` decides: `v > (AccLimit
- 1 - d) \div b` holds exactly when `v * b + d` does not fit, for both bases and
every digit, so the test neither wraps nor refuses too much. `NothingWraps`, the
accumulator equals what was read, is then inductive with the types and with what
holds before the first digit (`IInv`).

`NumbersAreTaken` compares the verdict, and the value returned with an
acceptance, with the number the whole text spells, by

    ReadInv == IInv /\ Counted /\ BodyCut /\ TakesExactlyNumbers

*Counted* says that `total` is the sum of the digits read so far, all of them
digits of the base. `Spells` is a recursive function; `SumExists` and `SumFacts`
prove that its equation has a solution, which grows with every digit, so a sum
that is too large before the end stays too large (`TooLong`), and the early refusal
is right. `SegmentsAreLevels` reads the verdict of a segment off this.
`ExactIsOneSpelling` needs what `Decimal` writes, which recurs on a tenth of the
number: it is a text of digits that spells the number and has no leading zero
(`DecimalFacts`), and there is only one (`NoLeadingZero`, `SpelledIsPrinted`).

These are inductions over data. `SetInduction` does them without an operator
parameter: a set of numbers that holds 0 and the successor of each member is all
of Nat, from the well-foundedness of `<`; the set is that of the numbers up to
which the claim holds.

### The padding

`PaddingIsStandard` is `PaddedAsStandard` for every message size. The invariant
says at each `pc` that the blocks absorbed so far are blocks of the standard's
padded message, and from `FillTail` on that the tail holds the rest of them
(`TailIsRest`). The arithmetic is in one lemma, that the standard's number of
blocks, `(n + 72) \div 64`, is one or two more than the full ones as `Rem < 56`
or not.

### Only model-checked

* `Returns` of `NssReader`, which is liveness. It rests on fairness of
  the loop and cannot be stated to the provers.
* The five findings: each is a counterexample, and TLC shows it.

## 5. Not modelled, and why

* The compression functions and the hexadecimal digest: bit arithmetic over one
  block, without control, which published test vectors cover. `hash()` reads the
  URN only, so equal URNs have equal hashes and no state of the object is
  involved.
* The wording of messages. The error *codes* are modelled, which one wins when
  several apply, and the piece a message of the NSS parser quotes.
* The output of the example tools, and the loop of `by_key` over its arguments: it
  prints, and keeps the largest exit code.
* The static tables' lifetime (they are never destroyed on purpose, so that a
  global destructor may still parse) and their thread-safe first use: language
  guarantees, no state of the library.
* `*_from_string` helpers and the SLIP-44 names: lookups without state.
* Leading whitespace: trimming is symmetric and only trailing whitespace
  interacts with the cut at `?` and `#`, so a token records what follows it.
* `bad_alloc` in chain and address setters: each allocates before its one
  assignment. `set_derivation_type` may fail after the attachment of an empty
  path, which is the state the model already has.

## 6. State of the work

The plan is done: all components with state have a model, every safety and
action property that a passing run checks is stated by a theorem, and the two
refinements are proved step by step.

The order was: the path class and its grammar, which everything else prints or
parses; the chain; the address with its URN and strict validation; the loops over
bytes, digits and blocks; then the proofs in the same order. What would extend it
is in section 5: the compression functions of `hash.cpp`, for which a model would
need bit arithmetic the proof modules cannot use.
