---------------------------- MODULE MCCredentials ----------------------------
EXTENDS Credentials

\* Two namespaces that share a key name, one value with whitespace around it.
MCStored == [default |-> [TOKEN |-> "plain", PIN |-> "padded"], aws |-> [TOKEN |-> "plain"]]

\* Keys assigned twice, a literal first and a reference first, a line that cannot be
\* read, and references into namespaces the same run may purge.
MCTemplate == <<
    [kind |-> "literal", key |-> "TOKEN", ns |-> "default", ref |-> "TOKEN"],
    [kind |-> "reference", key |-> "TOKEN", ns |-> "aws", ref |-> "TOKEN"],
    [kind |-> "reference", key |-> "PIN", ns |-> "default", ref |-> "PIN"],
    [kind |-> "literal", key |-> "PIN", ns |-> "default", ref |-> "PIN"],
    [kind |-> "malformed", key |-> "PIN", ns |-> "default", ref |-> "PIN"]>>
=============================================================================
