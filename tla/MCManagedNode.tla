---------------------------- MODULE MCManagedNode ----------------------------
\* One node whose admin changes his mind once or twice.
EXTENDS ManagedNode

==============================================================================
