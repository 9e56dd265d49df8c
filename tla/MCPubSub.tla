-------------------------------- MODULE MCPubSub -------------------------------
EXTENDS PubSubDatasource

CONSTANTS m1, m2, c1

TwoMessages == {m1, m2}
OneCallback == {c1}
=============================================================================
