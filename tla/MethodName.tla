------------------------------ MODULE MethodName ------------------------------
(***************************************************************************)
(* The names of az_ulib_ipc, as text:                                      *)
(*   device@package.version.interface.version:capability                   *)
(* A text is a sequence of tokens: the separators "@", ":", "." and "*",   *)
(* words, and one numeral per version.                                     *)
(***************************************************************************)
EXTENDS Integers, Sequences

CONSTANTS
  Words,                \* what names are made of
  Numeral               \* version -> the token az_span_u32toa writes for it

AZ_ULIB_VERSION_DEFAULT == 0
Separators == {"@", ":", ".", "*"}

ASSUME TokensAssumption ==
  /\ Words \cap Separators = {}
  /\ \A v \in DOMAIN Numeral : Numeral[v] \notin Separators
  /\ \A v, w \in DOMAIN Numeral : Numeral[v] = Numeral[w] => v = w

\* concat_name_version and concat_full_name: the key of a registry entry, and
\* what report_interfaces writes behind the mark of the default.
concat_name_version(name, version) == <<name, ".", Numeral[version]>>

concat_full_name(package, package_version, interface, interface_version) ==
  concat_name_version(package, package_version)
    \o <<".">> \o concat_name_version(interface, interface_version)

\* az_span_find, counted from 1; 0 if there is none.
az_span_find(text, token) ==
  IF \E k \in DOMAIN text : text[k] = token
  THEN CHOOSE k \in DOMAIN text : text[k] = token /\ \A h \in 1..k - 1 : text[h] # token
  ELSE 0

\* The text is cut at a token only if something stands in front of it.
Cuts(text, token) == az_span_find(text, token) > 1
Before(text, token) == SubSeq(text, 1, az_span_find(text, token) - 1)
\* Mutant: the separator stays.
After_WithSeparator(text, token) == SubSeq(text, az_span_find(text, token), Len(text))
After(text, token) == SubSeq(text, az_span_find(text, token) + 1, Len(text))

\* az_span_atou32: AZ_ERROR_UNEXPECTED_CHAR unless the text is a number.
IsNumber(text) == \E v \in DOMAIN Numeral : text = <<Numeral[v]>>
az_span_atou32(text) == CHOOSE v \in DOMAIN Numeral : text = <<Numeral[v]>>

Wildcard == <<"*">>

\* The outputs are written together at the end, so an error leaves them alone.
az_ulib_ipc_split_method_name(full_name) ==
  LET named == IF Cuts(full_name, "@") THEN After(full_name, "@") ELSE full_name
      interface == IF Cuts(named, ":") THEN Before(named, ":") ELSE named
      versioned == After(interface, ".")
      pkg_version == Before(versioned, ".")
      rest == After(versioned, ".")
  IN
  IF /\ Cuts(interface, ".") /\ Cuts(versioned, ".") /\ Cuts(rest, ".")
     /\ pkg_version = Wildcard \/ IsNumber(pkg_version)
     /\ IsNumber(After(rest, "."))
  THEN [result |-> "AZ_OK",
        device_name |-> IF Cuts(full_name, "@") THEN Before(full_name, "@") ELSE << >>,
        package_name |-> Before(interface, "."),
        package_version |-> IF pkg_version = Wildcard THEN AZ_ULIB_VERSION_DEFAULT
                            ELSE az_span_atou32(pkg_version),
        interface_name |-> Before(rest, "."),
        interface_version |-> az_span_atou32(After(rest, ".")),
        capability_name |-> IF Cuts(named, ":") THEN After(named, ":") ELSE << >>]
  ELSE [result |-> "AZ_ERROR_UNEXPECTED_CHAR"]
===============================================================================
