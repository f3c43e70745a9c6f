------------------------ MODULE MC_ValidationEnhanced ------------------------
(***************************************************************************)
(* Model-checking instance of ValidationEnhanced.                          *)
(***************************************************************************)
EXTENDS ValidationEnhanced

\* Configurations with metrics on: every toggle that changes control flow of
\* the cache and the pool, and each max_retries of RetryChoices.
MetricsOnConfigs == {c \in Configs : c.enable_metrics}

\* validation_set_config with no strings, or with a new base_url.
BaseUrlOrNone == {{}, {"base_url"}}
=============================================================================
