---------------------------- MODULE MCWebSocket ----------------------------
EXTENDS WebSocket
=============================================================================
