---------------------------- MODULE LearningEngine ----------------------------
(***************************************************************************)
(* lib/ai_learning_engine.c: an engine created by ai_learning_engine_init, *)
(* configured, trained, saved to a file and loaded back, and cleaned up.  *)
(* One caller; the model file persists across a crash of the process.     *)
(*                                                                         *)
(* The training loop of ai_learning_engine_train is kept step by step: an *)
(* epoch, the mini-batches within it, and early stopping.  The loss is a   *)
(* placeholder that is the same in every epoch, so an epoch improves on    *)
(* the best loss only in the first epoch (best_loss is INFINITY), or in    *)
(* every epoch when the convergence threshold is negative.  The loss       *)
(* history is written and never read, and is left out.                    *)
(***************************************************************************)
EXTENDS Integers

CONSTANTS
  ConfigChoices,   \* learning_config_t values callers pass to configure
  SampleCounts     \* num_samples values callers pass to train (all > 0)

\* The fields of learning_config_t that steer control; the rates are left out.
Configs == [batch_size : Nat, max_epochs : Nat, enable_early_stopping : BOOLEAN,
            patience_epochs : Nat, threshold_negative : BOOLEAN]

ASSUME ConfigChoices \subseteq Configs /\ SampleCounts \subseteq Nat \ {0}

\* Lines 134-143: the defaults of ai_learning_engine_init.
DefaultConfig == [batch_size |-> 32, max_epochs |-> 1000,
                  enable_early_stopping |-> TRUE, patience_epochs |-> 50,
                  threshold_negative |-> FALSE]
\* What calloc leaves in a config that fread did not fill.
ZeroConfig == [batch_size |-> 0, max_epochs |-> 0, enable_early_stopping |-> FALSE,
               patience_epochs |-> 0, threshold_negative |-> FALSE]

VARIABLES
  eng,    \* the caller's engine pointer: present, config, is_trained,
          \* metrics.training_samples, and the history field "trained": a
          \* training run completed for it or for the engine it was saved from
  tr,     \* the locals of a running ai_learning_engine_train
  file,   \* the model file: exists, written completely, and what it holds
  served  \* history: for each ai_learning_engine_predict that returned
          \* CURLE_OK, whether a training run completed for the engine

vars == <<eng, tr, file, served>>

NoEngine == [present |-> FALSE, config |-> ZeroConfig, is_trained |-> FALSE,
             training_samples |-> 0, trained |-> FALSE]
TrainIdle == [pc |-> "idle", epoch |-> 0, batch_start |-> 0, samples |-> 0,
              best_inf |-> TRUE, patience |-> 0]

TypeOK ==
  /\ eng \in [present : BOOLEAN, config : Configs, is_trained : BOOLEAN,
              training_samples : Nat, trained : BOOLEAN]
  /\ tr \in [pc : {"idle", "loop", "batch"}, epoch : 0 .. eng.config.max_epochs,
             batch_start : Nat, samples : Nat, best_inf : BOOLEAN, patience : Nat]
  /\ file \in [exists : BOOLEAN, complete : BOOLEAN, config : Configs,
               training_samples : Nat, trained : BOOLEAN]
  /\ served \subseteq BOOLEAN

Init ==
  /\ eng = NoEngine
  /\ tr = TrainIdle
  /\ file = [exists |-> FALSE, complete |-> FALSE, config |-> ZeroConfig,
             training_samples |-> 0, trained |-> FALSE]
  /\ served = {}

\* ai_learning_engine_init (lines 126-161).
Create ==
  /\ ~eng.present
  /\ eng' = [NoEngine EXCEPT !.present = TRUE, !.config = DefaultConfig]
  /\ UNCHANGED <<tr, file, served>>

\* ai_learning_engine_configure (lines 164-172): memcpy, no validation.
Configure(c) ==
  /\ eng.present /\ tr.pc = "idle"
  /\ eng' = [eng EXCEPT !.config = c]
  /\ UNCHANGED <<tr, file, served>>

\* Lines 175-194 of ai_learning_engine_train: arguments checked, locals set.
TrainStart(n) ==
  /\ eng.present /\ tr.pc = "idle"
  /\ tr' = [TrainIdle EXCEPT !.pc = "loop", !.samples = n]
  /\ UNCHANGED <<eng, file, served>>

\* Lines 237-243: after the loop, the model is marked trained.
Finish ==
  /\ eng' = [eng EXCEPT !.is_trained = TRUE, !.training_samples = tr.samples,
                        !.trained = TRUE]
  /\ tr' = TrainIdle

\* Mutant: the while test is "<=" (one epoch too many).
EpochBeginInclusive ==
  /\ tr.pc = "loop"
  /\ IF tr.epoch <= eng.config.max_epochs
       THEN /\ tr' = [tr EXCEPT !.pc = "batch", !.batch_start = 0]
            /\ UNCHANGED eng
       ELSE Finish
  /\ UNCHANGED <<file, served>>

\* Line 197: the while test, entering an epoch or leaving the loop.
EpochBegin ==
  /\ tr.pc = "loop"
  /\ IF tr.epoch < eng.config.max_epochs
       THEN /\ tr' = [tr EXCEPT !.pc = "batch", !.batch_start = 0]
            /\ UNCHANGED eng
       ELSE Finish
  /\ UNCHANGED <<file, served>>

\* Lines 202-216: one mini-batch, batch_start += batch_size (with a
\* batch_size of 0, batch_start never moves and the step changes nothing).
BatchStep ==
  /\ tr.pc = "batch"
  /\ tr.batch_start < tr.samples
  /\ tr' = [tr EXCEPT !.batch_start = @ + eng.config.batch_size]
  /\ UNCHANGED <<eng, file, served>>

\* Mutant: the epoch counter is not advanced when early stopping is off.
EpochEndNoAdvance ==
  /\ tr.pc = "batch"
  /\ tr.batch_start >= tr.samples
  /\ LET improved == tr.best_inf \/ eng.config.threshold_negative
         patience == IF improved THEN 0 ELSE tr.patience + 1
     IN IF eng.config.enable_early_stopping /\ ~improved
             /\ patience >= eng.config.patience_epochs
          THEN Finish
          ELSE /\ tr' = [tr EXCEPT !.pc = "loop", !.patience = patience,
                           !.best_inf = IF eng.config.enable_early_stopping
                                           /\ improved THEN FALSE ELSE @,
                           !.epoch = IF eng.config.enable_early_stopping
                                       THEN @ + 1 ELSE @]
               /\ UNCHANGED eng
  /\ UNCHANGED <<file, served>>

(***************************************************************************)
(* Lines 218-234: the epoch's loss, early stopping (a new best resets the *)
(* patience counter, otherwise it grows and the loop breaks at            *)
(* patience_epochs, line 229) and epoch++ (line 234).                     *)
(***************************************************************************)
EpochEnd ==
  /\ tr.pc = "batch"
  /\ tr.batch_start >= tr.samples
  /\ LET improved == tr.best_inf \/ eng.config.threshold_negative
         patience == IF improved THEN 0 ELSE tr.patience + 1
     IN IF eng.config.enable_early_stopping /\ ~improved
             /\ patience >= eng.config.patience_epochs
          THEN Finish
          ELSE /\ tr' = [tr EXCEPT !.pc = "loop", !.epoch = @ + 1,
                           !.patience = IF eng.config.enable_early_stopping
                                          THEN patience ELSE @,
                           !.best_inf = IF eng.config.enable_early_stopping
                                           /\ improved THEN FALSE ELSE @]
               /\ UNCHANGED eng
  /\ UNCHANGED <<file, served>>

(***************************************************************************)
(* ai_learning_engine_save (lines 291-313): fopen "wb" truncates the file, *)
(* then name, version, config and metrics are written.  The process may   *)
(* crash before fclose: the file is left partly written and the engine,   *)
(* in memory only, is gone.                                               *)
(***************************************************************************)
Save(crash) ==
  /\ eng.present /\ tr.pc = "idle"
  /\ file' = [exists |-> TRUE, complete |-> ~crash, config |-> eng.config,
              training_samples |-> eng.training_samples, trained |-> eng.trained]
  /\ eng' = IF crash THEN NoEngine ELSE eng
  /\ UNCHANGED <<tr, served>>

(***************************************************************************)
(* ai_learning_engine_load (lines 316-354): a calloc'd engine into which  *)
(* fread reads name, version, config and metrics in turn; what a short    *)
(* file lacks stays zero (the config is there when the crash came after   *)
(* its fwrite, hasConfig).  is_trained is set whatever was read.          *)
(***************************************************************************)
Load(hasConfig) ==
  /\ ~eng.present /\ file.exists
  /\ hasConfig => ~file.complete
  /\ eng' = [present |-> TRUE,
             config |-> IF file.complete \/ hasConfig THEN file.config ELSE ZeroConfig,
             is_trained |-> TRUE,
             training_samples |-> IF file.complete THEN file.training_samples ELSE 0,
             trained |-> file.complete /\ file.trained]
  /\ UNCHANGED <<tr, file, served>>

(***************************************************************************)
(* ai_learning_engine_predict (lines 261-277): refused unless is_trained; *)
(* otherwise the placeholder output is written and CURLE_OK returned.     *)
(* ai_learning_engine_feedback (lines 246-259) is not an action: rl_state *)
(* is zero after init and after load, so it always returns                *)
(* CURLE_BAD_FUNCTION_ARGUMENT.  get_metrics only copies.                 *)
(***************************************************************************)
Predict ==
  /\ eng.present /\ eng.is_trained
  /\ served' = served \cup {eng.trained}
  /\ UNCHANGED <<eng, tr, file>>

\* ai_learning_engine_cleanup (lines 357-379).
Cleanup ==
  /\ eng.present /\ tr.pc = "idle"
  /\ eng' = NoEngine
  /\ UNCHANGED <<tr, file, served>>

\* The steps of one ai_learning_engine_train call after it has started.
Training == EpochBegin \/ BatchStep \/ EpochEnd

Next ==
  \/ Create \/ Cleanup \/ Predict
  \/ \E hasConfig \in BOOLEAN : Load(hasConfig)
  \/ \E c \in ConfigChoices : Configure(c)
  \/ \E n \in SampleCounts : TrainStart(n)
  \/ Training
  \/ \E crash \in BOOLEAN : Save(crash)

(***************************************************************************)
(* ai_learning_engine_train runs on the caller's thread to its return; it *)
(* waits on nothing, so its steps are weakly fair.  Nothing forces a call. *)
(***************************************************************************)
Spec == Init /\ [][Next]_vars /\ WF_vars(Training)

-----------------------------------------------------------------------------
(* A call of ai_learning_engine_train with a positive batch_size returns: *)
(* the while loop at 197 ends, by epoch reaching max_epochs or by the      *)
(* early-stopping break at 229, whose patience counter is reset by every   *)
(* improvement (a negative threshold improves every epoch), and each       *)
(* mini-batch loop at 202 ends.  A batch_size of 0 is not covered: the     *)
(* configure memcpy (170) accepts it and the loop at 202 then never        *)
(* advances, which the explored configurations reach and the README        *)
(* records.                                                                *)
TrainTerminates ==
  (tr.pc # "idle" /\ eng.config.batch_size > 0) ~> tr.pc = "idle"

(* ai_learning_engine_predict, "Predict using trained model", serves only *)
(* an engine with is_trained set; that flag should mean a training run    *)
(* completed for this model, here or before it was saved and loaded back: *)
(* no prediction is ever served from an untrained model.                  *)
PredictOnlyTrained == FALSE \notin served
=============================================================================
