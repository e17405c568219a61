------------------------------- MODULE MCHart -------------------------------
(***************************************************************************)
(* Small instances of Hart.                                                *)
(***************************************************************************)
EXTENDS Hart

(* One interrupt of each level; SEI has both a line and a software bit.    *)
McLines == {"MTI", "SEI"}

(* The single bits that a run's programs set, clear or write, by register. *)
McSources ==
  [csr \in Csrs |->
    CASE csr = "mstatus" -> {{"MIE", "MPP0"}, {"MPP1", "MPRV"}}
      [] csr = "sstatus" -> {{"SIE"}, {"SPP", "MPRV"}}
      [] csr = "mie" -> {{"MTI", "SEI"}}
      [] csr = "sie" -> {{"MTI", "SEI"}}
      [] csr = "mip" -> {{"SEI"}}
      [] csr = "sip" -> {}
      [] csr = "mideleg" -> {{"MTI", "SEI"}}
      [] csr = "medeleg" -> {{"EcallU"}}]
=============================================================================
