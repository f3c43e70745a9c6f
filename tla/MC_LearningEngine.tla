--------------------------- MODULE MC_LearningEngine ---------------------------
(***************************************************************************)
(* Model-checking instance of LearningEngine.                              *)
(***************************************************************************)
EXTENDS LearningEngine

\* The defaults; early stopping off with a short run and uneven batches; a
\* negative threshold, which keeps every epoch "improving"; a batch size of
\* 0, which configure accepts and with which training never returns.
Configured ==
  { DefaultConfig,
    [batch_size |-> 2, max_epochs |-> 3, enable_early_stopping |-> FALSE,
     patience_epochs |-> 0, threshold_negative |-> FALSE],
    [batch_size |-> 1, max_epochs |-> 4, enable_early_stopping |-> TRUE,
     patience_epochs |-> 1, threshold_negative |-> TRUE],
    [batch_size |-> 0, max_epochs |-> 2, enable_early_stopping |-> FALSE,
     patience_epochs |-> 0, threshold_negative |-> FALSE] }
=============================================================================
