------------------------------- MODULE MCServo -------------------------------
\* Instances of Servo for TLC; the constants are in the .cfg files.
EXTENDS Servo
=============================================================================
