--------------------------- MODULE MCModelClient ---------------------------
EXTENDS ModelClient

MCProviders == {"openrouter", "deepseek", "ollama"}
MCRequired == {"openrouter", "deepseek"}
=============================================================================
