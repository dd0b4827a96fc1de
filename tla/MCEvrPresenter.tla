--------------------------- MODULE MCEvrPresenter ---------------------------
(* The instance TLC checks: EvrPresenter.cfg bounds everything.              *)
EXTENDS EvrPresenter
=============================================================================
