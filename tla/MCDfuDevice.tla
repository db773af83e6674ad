----------------------------- MODULE MCDfuDevice -----------------------------
(* DfuDevice on two sectors of one flash word of two bytes.                *)
EXTENDS DfuDevice

\* The contents of the memory decide nothing but later contents: states that
\* differ only there are one state for OpMatchesDriver, LaunchOnlyWhenReady and
\* JobWindsDown.
Control ==
  <<[running |-> DOMAIN bank.running, wb |-> DOMAIN bank.wb,
     LOCK |-> bank.LOCK, PG |-> bank.PG, SER |-> bank.SER],
    flash_ctx, dfuse_ctx, class>>
==============================================================================
