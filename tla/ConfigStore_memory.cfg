\* Expected violation: the first validation_set_config with a base_url frees
\* the string literal of the static initializer.
CONSTANTS
  RetryChoices = {3}
SPECIFICATION ConfigSpec
INVARIANT ConfigMemorySafe
