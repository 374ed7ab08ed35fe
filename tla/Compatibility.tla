--------------------------- MODULE Compatibility ---------------------------
(***************************************************************************)
(* The compatibility matrix of strict mode: for every network the curves,  *)
(* address formats and derivation types it takes, its defaults, and what a *)
(* derivation type fixes there.                                            *)
(***************************************************************************)
EXTENDS ChainIdentity

Algorithms == {"secp256k1", "ed25519", "sr25519", "secp256r1", "secp384r1",
               "secp521r1", "prime256v1"}

Formats == {"hex", "p2pkh", "p2sh", "p2wpkh", "p2wsh", "p2tr", "bech32",
            "bech32m", "base58", "base32", "strkey", "base64url", "ss58"}

ASSUME NamesAreWords == Algorithms \cup Formats \subseteq Words

Unbound == [d \in {} |-> {}]

\* algorithm, format: the defaults, "" for none.  curves: the one algorithm a
\* derivation type derives here.  scripts: the formats its purpose allows.
\* Both are functions on the derivation types that are bound to something.
Row(algorithms, formats, derivations, algorithm, format, curves, scripts) ==
  [algorithms |-> algorithms, formats |-> formats,
   derivations |-> derivations, algorithm |-> algorithm, format |-> format,
   curves |-> curves, scripts |-> scripts]

\* The networks whose derivation types fix no curve and no script.
Simple(algorithms, formats, derivations, algorithm, format) ==
  Row(algorithms, formats, derivations, algorithm, format, Unbound, Unbound)

BitcoinRow ==
  Row({"secp256k1"},
      {"p2pkh", "p2sh", "p2wpkh", "p2wsh", "p2tr", "bech32", "bech32m"},
      {"bip32", "bip44", "bip49", "bip84", "bip86"}, "secp256k1", "", Unbound,
      [bip44 |-> {"p2pkh"}, bip49 |-> {"p2sh"},
       bip84 |-> {"p2wpkh", "bech32"}, bip86 |-> {"p2tr", "bech32m"}])

\* Near and Aptos.
TwoCurvesRow ==
  Row({"ed25519", "secp256k1"}, {"hex"}, {"slip10", "bip44"}, "ed25519", "hex",
      [slip10 |-> "ed25519", bip44 |-> "secp256k1"], Unbound)

\* Mutant: the second name of the same curve.
SuiRowPrime ==
  Row({"ed25519", "secp256k1", "secp256r1"}, {"hex"},
      {"slip10", "bip54", "bip74"}, "ed25519", "hex",
      [slip10 |-> "ed25519", bip54 |-> "secp256k1", bip74 |-> "prime256v1"],
      Unbound)

SuiRow ==
  Row({"ed25519", "secp256k1", "secp256r1"}, {"hex"},
      {"slip10", "bip54", "bip74"}, "ed25519", "hex",
      [slip10 |-> "ed25519", bip54 |-> "secp256k1", bip74 |-> "secp256r1"],
      Unbound)

Slip10Row(formats, format) ==
  Simple({"ed25519"}, formats, {"slip10"}, "ed25519", format)

K1Row(formats, derivations, format) ==
  Simple({"secp256k1"}, formats, derivations, "secp256k1", format)

Matrix ==
  [nt \in Networks |->
     CASE nt = "bitcoin"   -> BitcoinRow
       [] nt = "evm"       -> K1Row({"hex"}, {"bip32", "bip44"}, "hex")
       [] nt = "avalanche" -> K1Row({"hex", "bech32"}, {"bip44"}, "")
       [] nt = "tron"      -> K1Row({"base58"}, {"bip44"}, "base58")
       [] nt = "cosmos"    -> Simple({"secp256k1", "ed25519"}, {"bech32"},
                                     {"bip44", "cip11"}, "secp256k1", "bech32")
       [] nt = "xrpl"      -> Simple({"secp256k1", "ed25519"}, {"base58"},
                                     {"bip44"}, "secp256k1", "base58")
       [] nt = "solana"    -> Slip10Row({"base58"}, "base58")
       [] nt = "stellar"   -> Slip10Row({"strkey"}, "strkey")
       [] nt = "algorand"  -> Slip10Row({"base32"}, "base32")
       [] nt = "ton"       -> Slip10Row({"base64url", "hex"}, "base64url")
       [] nt = "near"      -> TwoCurvesRow
       [] nt = "aptos"     -> TwoCurvesRow
       [] nt = "sui"       -> SuiRow
       [] nt = "cardano"   -> Simple({"ed25519"}, {"bech32", "base58"},
                                     {"cip1852"}, "ed25519", "bech32")]

-----------------------------------------------------------------------------
(* Lookups *)

DefaultAlgorithm(nt) == IF nt \in Networks THEN Matrix[nt].algorithm ELSE ""
DefaultFormat(nt)    == IF nt \in Networks THEN Matrix[nt].format ELSE ""

\* The algorithms dt may use on nt: the bound one, or any.
DerivationAlgorithms(nt, dt) ==
  IF dt \in DOMAIN Matrix[nt].curves THEN {Matrix[nt].curves[dt]}
  ELSE Algorithms

DerivationFormats(nt, dt) ==
  IF dt \in DOMAIN Matrix[nt].scripts THEN Matrix[nt].scripts[dt] ELSE Formats

=============================================================================
