------------------------------ MODULE FwUpdate ------------------------------
(***************************************************************************)
(* The two bits of the FICA table by which the application asks the boot   *)
(* loader for an update (sln_app_fwupdate.c).  A set bit is no request;    *)
(* programming only clears bits.  The boot loader is not in the            *)
(* repository: it carries the request out and sets both bits again.        *)
(***************************************************************************)
EXTENDS Naturals

CONSTANT Faults   \* whether memory, the flash driver or a Save may fail

ASSUME FaultsAssumption == Faults \in BOOLEAN

VARIABLE
  fica   \* the bits that are still set

FWUPDATE == "FICA_COMM_FWUPDATE_BIT"
METHOD   == "FICA_COMM_FWUPDATE_METHOD_BIT"

FicaBits == {FWUPDATE, METHOD}

FicaTypeOK == fica \in SUBSET FicaBits

\* One read, one page program of what is left; nothing if all are clear.
FICA_clr_bits(bits) == fica' = fica \ bits

\* Mutant: the method is set by a program of its own, the second may fail.
FWUpdate_set_SLN_OTA_Twice ==
  FICA_clr_bits({METHOD}) \/ FICA_clr_bits({FWUPDATE, METHOD})

FWUpdate_set_SLN_OTA == FICA_clr_bits({FWUPDATE, METHOD})

FWUpdate_set_SLN_OTW == FICA_clr_bits({FWUPDATE})

\* External: what the next start of the application finds.
BootLoader == fica' = IF FWUPDATE \in fica THEN fica ELSE FicaBits

=============================================================================
