-------------------------- MODULE MCDeviceBuffers --------------------------
EXTENDS DeviceBuffers
=============================================================================
