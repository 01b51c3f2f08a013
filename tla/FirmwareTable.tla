---------------------------- MODULE FirmwareTable ----------------------------
(***************************************************************************)
(* How the host turns a machine of a scenario into an ECU                  *)
(* (src/src/lib.rs).  Two lookups read the same firmware path: validation  *)
(* asks for a broad category, boot dispatch for an entry point.            *)
(*                                                                         *)
(* A name or a path is the sequence of its pieces, cut finely enough that  *)
(* str::contains is "is a contiguous part" and str::starts_with is "is a   *)
(* prefix" for every pattern of the tables: gateway_diag_clearbug is       *)
(* <<gateway, diag, clear, bug>>, diagnostics is <<diag, nostics>>.        *)
(***************************************************************************)
EXTENDS Integers, Sequences, SequencesExt

NoFirmware == << >>          \* firmware: None
NoCategory == << >>          \* resolve_ecu_category(..) == None

contains(path, p) ==
  \E i \in 0..Len(path) - Len(p) : SubSeq(path, i + 1, i + Len(p)) = p

Gateway(variant) == << "gateway" >> \o variant
Powertrain(variant) == << "powertrain" >> \o variant

(* The 28 patterns, most specific first; the same list serves as VARIANTS  *)
(* of ecu_type.                                                            *)
Patterns ==
  << << "priority", "inversion" >>, << "lifecycle", "stress" >>, << "net", "demo" >>,
     << "storage", "demo" >>, << "bt", "demo" >>, << "ota", "tool" >>, << "telematics" >>,
     Gateway(<< "diag", "clear", "bug" >>), Gateway(<< "diag", "clear" >>),
     Gateway(<< "diag", "startdrive", "bug" >>), Gateway(<< "diag", "startdrive" >>),
     Gateway(<< "diag", "fault" >>), Gateway(<< "diag" >>),
     Powertrain(<< "diag", "service", "bug" >>), Powertrain(<< "diag", "service" >>),
     Gateway(<< "ota", "badcrc" >>), Gateway(<< "ota", "intwrite" >>),
     Gateway(<< "ota", "badhealth" >>), Gateway(<< "ota", "powercut" >>),
     Gateway(<< "ota", "crcbug" >>), Gateway(<< "ota" >>),
     Gateway(<< "charging" >>), Powertrain(<< "charging" >>),
     << "diag", "nostics" >>, << "gateway" >>, << "powertrain" >>, << "bms" >>,
     << "dashboard" >> >>

(* The category column of ECU_CATEGORY_PATTERNS: the variants of the       *)
(* gateway and of the powertrain fold into their ECU.                      *)
category(p) == IF Head(p) \in {"gateway", "powertrain"} THEN << Head(p) >> ELSE p

(* The first entry of a table that satisfies Matches, or << >>.            *)
FirstMatch(table, Matches(_)) ==
  LET hits == SelectSeq(table, Matches) IN IF hits = << >> THEN << >> ELSE Head(hits)

(* resolve_ecu_category: path first, then the machine's name, and nothing  *)
(* at all for a machine without firmware (an external actor).              *)
resolve_ecu_category(firmware, name) ==
  LET byPath == FirstMatch(Patterns, LAMBDA p : contains(firmware, p))
      byName == FirstMatch(Patterns, LAMBDA p : IsPrefix(p, name))
      hit == IF byPath # << >> THEN byPath ELSE byName
  IN IF firmware = NoFirmware \/ hit = << >> THEN NoCategory ELSE category(hit)

(* MicrocarFirmware::ecu_type: the detailed variant named by the path,     *)
(* else the category, else the bare name.                                  *)
ecu_type(firmware, name) ==
  LET variant == FirstMatch(Patterns, LAMBDA p : contains(firmware, p))
      cat == resolve_ecu_category(firmware, name)
  IN IF firmware # NoFirmware /\ variant # << >> THEN variant
     ELSE IF cat # NoCategory THEN cat ELSE name

(* The order of the starts_with chain of Firmware::init; an entry stands   *)
(* for the boot function it calls, << >> for microcar_boot().              *)
IsDemo(p) == p \in {Patterns[i] : i \in 1..5}
IsTool(p) == p \in {<< "ota", "tool" >>, << "telematics" >>}
IsBase(p) == p \in {<< "gateway" >>, << "powertrain" >>, << "bms" >>, << "dashboard" >>}

BootOrder ==
  SelectSeq(Patterns, IsDemo)
    \o SelectSeq(Patterns, LAMBDA p : ~(IsDemo(p) \/ IsTool(p) \/ IsBase(p)))
    \o SelectSeq(Patterns, IsTool) \o SelectSeq(Patterns, IsBase)

(* Fault: the broad ECUs are tested before their variants.                 *)
boot_image_faulty(ecu) == FirstMatch(Reverse(BootOrder), LAMBDA p : IsPrefix(p, ecu))

boot_image(ecu) == FirstMatch(BootOrder, LAMBDA p : IsPrefix(p, ecu))
=============================================================================
