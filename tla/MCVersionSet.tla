----------------------------- MODULE MCVersionSet -----------------------------
EXTENDS VersionSet
=============================================================================
