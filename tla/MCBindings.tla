----------------------------- MODULE MCBindings -----------------------------
EXTENDS Bindings, BindingPlans
=============================================================================
